---- MODULE Spec2Model ----
(***************************************************************************)
(* A model of the policy engine of k8s-mcp (class PolicyEngine, whose      *)
(* source is the second half of src/README.md) and of the tool handlers    *)
(* in src/src/index.ts that call it.                                       *)
(*                                                                         *)
(* JavaScript values are tagged records, so that values of different types *)
(* can be compared: every tag has its own payload field.  Strings that the *)
(* code inspects (quantities, images, patterns) are sequences of one-      *)
(* character strings; object keys, rule ids, severities, categories and    *)
(* operators are only compared for equality and stay TLA+ strings.         *)
(* Descriptive texts (rule name, description, action message, timestamp,   *)
(* metadata) are carried through by the code unchanged and are left out.   *)
(***************************************************************************)
EXTENDS Integers, Sequences, FiniteSets, TLC

VARIABLES rules, config, built, touched, ops, cluster, last

vars == <<rules, config, built, touched, ops, cluster, last>>

(***************************************************************************)
(* JavaScript values                                                       *)
(***************************************************************************)
Undef == [t |-> "undefined"]
Bool(b) == [b |-> b, t |-> "boolean"]
Num(n) == [n |-> n, t |-> "number"]
Str(s) == [s |-> s, t |-> "string"]
Obj(f) == [o |-> f, t |-> "object"]
Arr(a) == [a |-> a, t |-> "array"]

IsUndef(v) == v.t = "undefined"
IsNullish(v) == v.t \in {"undefined", "null"}

\* JavaScript truthiness, as used by `!x`, `x && y` and `x || y`.
Truthy(v) ==
  CASE v.t = "undefined" -> FALSE
    [] v.t = "null" -> FALSE
    [] v.t = "boolean" -> v.b
    [] v.t = "number" -> v.n # 0
    [] v.t = "string" -> v.s # <<>>
    [] OTHER -> TRUE

\* Strict equality (===) on the values the model compares: primitives by
\* value; an object or array is never equal to a literal of a condition.
StrictEq(x, y) ==
  /\ x.t = y.t
  /\ x.t \notin {"object", "array"}
  /\ x = y

\* obj[key]: a property of an object, an index or the length of an array.
ArrayIndex(key) ==
  CASE key = "0" -> 1
    [] key = "1" -> 2
    [] key = "2" -> 3
    [] OTHER -> 0

GetProp(v, key) ==
  CASE v.t = "object" -> IF key \in DOMAIN v.o THEN v.o[key] ELSE Undef
    [] v.t = "array" ->
         IF key = "length" THEN Num(Len(v.a))
         ELSE IF ArrayIndex(key) \in 1..Len(v.a) THEN v.a[ArrayIndex(key)]
         ELSE Undef
    [] OTHER -> Undef

\* obj[key] = val on an object.
SetProp(v, key, val) ==
  Obj([k \in (DOMAIN v.o) \cup {key} |-> IF k = key THEN val ELSE v.o[k]])

\* delete obj[key]
DelProp(v, key) ==
  Obj([k \in (DOMAIN v.o) \ {key} |-> v.o[k]])

(***************************************************************************)
(* Strings as character sequences                                          *)
(***************************************************************************)
Digits == <<"0", "1", "2", "3", "4", "5", "6", "7", "8", "9">>

DigitVal(c) == (CHOOSE i \in 1..10 : Digits[i] = c) - 1

RECURSIVE NatToChars(_)
NatToChars(n) ==
  IF n < 10 THEN <<Digits[n + 1]>>
  ELSE NatToChars(n \div 10) \o <<Digits[(n % 10) + 1]>>

\* String.prototype.endsWith
EndsWith(s, suf) ==
  /\ Len(s) >= Len(suf)
  /\ SubSeq(s, Len(s) - Len(suf) + 1, Len(s)) = suf

\* String.prototype.includes
Includes(s, sub) ==
  \E i \in 0..(Len(s) - Len(sub)) : SubSeq(s, i + 1, i + Len(sub)) = sub

\* value.slice(0, -k)
SliceOff(s, k) == SubSeq(s, 1, Len(s) - k)

RECURSIVE JoinChars(_, _)
\* String(value)
RECURSIVE ToStr(_)
ToStr(v) ==
  CASE v.t = "undefined" -> <<"u", "n", "d", "e", "f", "i", "n", "e", "d">>
    [] v.t = "null" -> <<"n", "u", "l", "l">>
    [] v.t = "boolean" ->
         IF v.b THEN <<"t", "r", "u", "e">> ELSE <<"f", "a", "l", "s", "e">>
    [] v.t = "number" ->
         IF v.n < 0 THEN <<"-">> \o NatToChars(-v.n) ELSE NatToChars(v.n)
    [] v.t = "string" -> v.s
    [] v.t = "array" -> JoinChars(v.a, 1)
    [] OTHER -> <<"[", "o", "b", "j", "e", "c", "t", " ", "O", "b", "j", "e", "c", "t", "]">>

JoinChars(a, i) ==
  IF i > Len(a) THEN <<>>
  ELSE (IF IsNullish(a[i]) THEN <<>> ELSE ToStr(a[i]))
       \o (IF i < Len(a) THEN <<",">> ELSE <<>>)
       \o JoinChars(a, i + 1)

(***************************************************************************)
(* Numbers produced by parseInt / parseFloat: a decimal fraction num/den   *)
(* (den a power of ten) or NaN.                                            *)
(***************************************************************************)
NaN == [nan |-> TRUE, num |-> 0, den |-> 1]
RatInt(n) == [nan |-> FALSE, num |-> n, den |-> 1]
RatMul(a, k) == IF a.nan THEN NaN ELSE [a EXCEPT !.num = @ * k]
\* a < b and a > b on numbers: false as soon as one side is NaN.  The
\* integer parts are compared first and the fractions after, so that no
\* product leaves the range of the integers of the checker.
RatLt(a, b) ==
  /\ ~a.nan
  /\ ~b.nan
  /\ IF a.num \div a.den # b.num \div b.den
     THEN a.num \div a.den < b.num \div b.den
     ELSE (a.num % a.den) * b.den < (b.num % b.den) * a.den

RECURSIVE DigitRunLen(_, _)
\* The number of consecutive digits of s from position i on.
DigitRunLen(s, i) ==
  IF i <= Len(s) /\ (\E d \in 1..10 : Digits[d] = s[i])
  THEN 1 + DigitRunLen(s, i + 1) ELSE 0

RECURSIVE DigitsValue(_, _, _)
\* The value of the n digits of s that end at position i + n - 1.
DigitsValue(s, i, n) ==
  IF n = 0 THEN 0
  ELSE 10 * DigitsValue(s, i, n - 1) + DigitVal(s[i + n - 1])

RECURSIVE Pow10(_)
Pow10(n) == IF n = 0 THEN 1 ELSE 10 * Pow10(n - 1)

SignLen(s) == IF Len(s) >= 1 /\ s[1] \in {"-", "+"} THEN 1 ELSE 0
SignOf(s) == IF Len(s) >= 1 /\ s[1] = "-" THEN -1 ELSE 1

\* parseInt(s): an optional sign and the leading run of decimal digits; NaN
\* when there is no digit.
ParseInt(s) ==
  IF DigitRunLen(s, SignLen(s) + 1) = 0 THEN NaN
  ELSE RatInt(SignOf(s) * DigitsValue(s, SignLen(s) + 1, DigitRunLen(s, SignLen(s) + 1)))

\* parseFloat(s): an optional sign, digits, an optional fraction; NaN when
\* there is no digit.
FractionLen(s, p) ==
  IF p <= Len(s) /\ s[p] = "." THEN DigitRunLen(s, p + 1) ELSE 0

\* The number with n integer digits from position i0 and f fraction digits.
ParseFloatRun(s, i0, n, f) ==
  IF n = 0 /\ f = 0 THEN NaN
  ELSE [nan |-> FALSE,
        num |-> SignOf(s) * (DigitsValue(s, i0, n) * Pow10(f)
                             + DigitsValue(s, i0 + n + 1, f)),
        den |-> Pow10(f)]

ParseFloat(s) ==
  ParseFloatRun(s, SignLen(s) + 1, DigitRunLen(s, SignLen(s) + 1),
                FractionLen(s, SignLen(s) + 1 + DigitRunLen(s, SignLen(s) + 1)))

Kibi == 1024

\* parseResourceValue(value)
parseResourceValue(value) ==
  IF value.t = "number" THEN RatInt(value.n)
  ELSE IF value.t # "string" THEN RatInt(0)
  ELSE IF EndsWith(value.s, <<"m">>) THEN ParseInt(SliceOff(value.s, 1))
  ELSE IF EndsWith(value.s, <<"K", "i">>) THEN RatMul(ParseInt(SliceOff(value.s, 2)), Kibi)
  ELSE IF EndsWith(value.s, <<"M", "i">>)
    THEN RatMul(ParseInt(SliceOff(value.s, 2)), Kibi * Kibi)
  ELSE IF EndsWith(value.s, <<"G", "i">>)
    THEN RatMul(ParseInt(SliceOff(value.s, 2)), Kibi * Kibi * Kibi)
  ELSE IF ParseFloat(value.s).nan THEN RatInt(0)
  ELSE ParseFloat(value.s)

(***************************************************************************)
(* Regular expressions: the class the rules of the code and of its         *)
(* documentation use, an optional ^ anchor followed by one literal or one  *)
(* parenthesised alternation of literals, with \c for a literal character  *)
(* and . for any character.                                                *)
(***************************************************************************)
RECURSIVE MatchAlt(_, _, _, _)
\* Whether alt[i..] matches s from position p on.
MatchAlt(alt, i, s, p) ==
  IF i > Len(alt) THEN TRUE
  ELSE IF alt[i] = "\\" /\ i < Len(alt)
    THEN p <= Len(s) /\ s[p] = alt[i + 1] /\ MatchAlt(alt, i + 2, s, p + 1)
  ELSE IF alt[i] = "." THEN p <= Len(s) /\ MatchAlt(alt, i + 1, s, p + 1)
  ELSE p <= Len(s) /\ s[p] = alt[i] /\ MatchAlt(alt, i + 1, s, p + 1)

\* The alternatives of a|b|c.
Alternatives(body) ==
  LET bars == {i \in 1..Len(body) : body[i] = "|"}
      cuts == bars \cup {0, Len(body) + 1}
  IN {SubSeq(body, a + 1, b - 1) :
        <<a, b>> \in {c \in cuts \X cuts :
                        c[1] < c[2] /\ \A k \in bars : ~(c[1] < k /\ k < c[2])}}

\* The alternatives of a pattern body: those of a parenthesised
\* alternation, else the body itself.
AlternativesOf(body) ==
  IF Len(body) >= 2 /\ body[1] = "(" /\ body[Len(body)] = ")"
  THEN Alternatives(SubSeq(body, 2, Len(body) - 1)) ELSE {body}

\* new RegExp(pattern).test(s)
RegExpTest(pattern, s) ==
  IF Len(pattern) >= 1 /\ pattern[1] = "^"
  THEN \E alt \in AlternativesOf(SubSeq(pattern, 2, Len(pattern))) :
         MatchAlt(alt, 1, s, 1)
  ELSE \E alt \in AlternativesOf(pattern) :
         \E p \in 1..(Len(s) + 1) : MatchAlt(alt, 1, s, p)

(***************************************************************************)
(* Field paths.  A field is the sequence of its dot-separated segments;    *)
(* the projection [*] is a segment of its own.                             *)
(***************************************************************************)
RECURSIVE getNestedValueFrom(_, _, _)
getNestedValueFrom(current, keys, i) ==
  IF i > Len(keys) THEN current
  ELSE getNestedValueFrom(
         IF Truthy(current) /\ ~IsUndef(GetProp(current, keys[i]))
           THEN GetProp(current, keys[i]) ELSE Undef,
         keys, i + 1)

\* getNestedValue(obj, path); "".split(".") is [""], one empty key.
getNestedValue(obj, path) ==
  getNestedValueFrom(obj, IF path = <<>> THEN <<"">> ELSE path, 1)

StarPositions(field) == {i \in 1..Len(field) : field[i] = "[*]"}

\* The least position of S from `from` on, or past the end of the field.
StarFrom(field, from) ==
  IF \E i \in StarPositions(field) : i >= from
  THEN CHOOSE i \in StarPositions(field) :
         i >= from /\ \A j \in StarPositions(field) : j >= from => i <= j
  ELSE Len(field) + 1

\* field.split("[*]"): parts[0] and parts[1].
ArrayPath(field) == SubSeq(field, 1, StarFrom(field, 1) - 1)

RemainingPath(field) ==
  SubSeq(field, StarFrom(field, 1) + 1, StarFrom(field, StarFrom(field, 1) + 1) - 1)

\* A projection that asks every item for the value.
EveryItemHas(arrayValue, remainingPath) ==
  IF arrayValue.t = "array"
  THEN Bool(\A i \in 1..Len(arrayValue.a) :
              ~IsNullish(IF remainingPath # <<>>
                           THEN getNestedValue(arrayValue.a[i], remainingPath)
                           ELSE arrayValue.a[i]))
  ELSE Bool(FALSE)

\* arrayValue.some(item => the item has a value at remainingPath)
SomeItemHas(arrayValue, remainingPath) ==
  IF arrayValue.t = "array"
  THEN Bool(\E i \in 1..Len(arrayValue.a) :
              ~IsNullish(IF remainingPath # <<>>
                           THEN getNestedValue(arrayValue.a[i], remainingPath)
                           ELSE arrayValue.a[i]))
  ELSE Bool(FALSE)

\* getFieldValue(obj, field): with a projection, one boolean for the array.
getFieldValue(obj, field) ==
  IF StarPositions(field) # {}
  THEN SomeItemHas(getNestedValue(obj, ArrayPath(field)), RemainingPath(field))
  ELSE getNestedValue(obj, field)

(***************************************************************************)
(* Conditions, rules, evaluation                                           *)
(***************************************************************************)
\* The switch of evaluateCondition: whether the operator passes on the
\* resolved value.
OperatorPasses(op, fieldValue, value) ==
  CASE op = "equals" -> StrictEq(fieldValue, value)
    [] op = "not_equals" -> ~StrictEq(fieldValue, value)
    [] op = "contains" -> Includes(ToStr(fieldValue), ToStr(value))
    [] op = "not_contains" -> ~Includes(ToStr(fieldValue), ToStr(value))
    [] op = "greater_than" ->
         RatLt(parseResourceValue(value), parseResourceValue(fieldValue))
    [] op = "less_than" ->
         RatLt(parseResourceValue(fieldValue), parseResourceValue(value))
    [] op = "regex_match" -> RegExpTest(ToStr(value), ToStr(fieldValue))
    [] op = "exists" -> ~IsNullish(fieldValue)
    [] op = "not_exists" -> IsNullish(fieldValue)
    [] OTHER -> FALSE

ConditionResult(condition, fieldValue) ==
  [passed |-> OperatorPasses(condition.operator, fieldValue, condition.value),
   currentValue |-> fieldValue,
   suggestedValue |-> IF condition.operator \in {"equals", "greater_than", "less_than"}
                        THEN condition.value ELSE Undef]

\* evaluateCondition(condition, resource)
evaluateCondition(condition, resource) ==
  ConditionResult(condition, getFieldValue(resource, condition.field))

ResourceIdentity(resource) ==
  [kind |-> IF Truthy(GetProp(resource, "kind")) THEN GetProp(resource, "kind")
            ELSE Str(<<"D">>),
   name |-> IF Truthy(getNestedValue(resource, <<"metadata", "name">>))
            THEN getNestedValue(resource, <<"metadata", "name">>) ELSE Str(<<"?">>),
   namespace |-> getNestedValue(resource, <<"metadata", "namespace">>)]

\* rule.actions.every(action => action.autoFix === true)
CanAutoFixEveryAction(rule) == \A i \in 1..Len(rule.actions) : rule.actions[i].autoFix

\* rule.actions.some(action => action.autoFix === true)
CanAutoFix(rule) == \E i \in 1..Len(rule.actions) : rule.actions[i].autoFix

\* rule.actions.some(action => action.type === 'deny')
HasDeny(rule) == \E i \in 1..Len(rule.actions) : rule.actions[i].type = "deny"

\* The record evaluateRule pushes for a condition that did not pass.
RecordsFor(rule, resource, condition, result) ==
  IF ~result.passed
  THEN <<[ruleId |-> rule.id,
          severity |-> rule.severity,
          category |-> rule.category,
          resource |-> ResourceIdentity(resource),
          field |-> condition.field,
          currentValue |-> result.currentValue,
          suggestedValue |-> result.suggestedValue,
          canAutoFix |-> CanAutoFix(rule)]>>
  ELSE <<>>

RECURSIVE evaluateRuleFrom(_, _, _)
evaluateRuleFrom(rule, resource, i) ==
  IF i > Len(rule.conditions) THEN <<>>
  ELSE RecordsFor(rule, resource, rule.conditions[i],
                  evaluateCondition(rule.conditions[i], resource))
       \o evaluateRuleFrom(rule, resource, i + 1)

\* evaluateRule(rule, resource): one record per failed condition, in order.
evaluateRule(rule, resource) == evaluateRuleFrom(rule, resource, 1)

\* seq.filter(pred) for a sequence and the set of the elements to keep.
RECURSIVE SelectFrom(_, _, _)
SelectFrom(seq, keep, i) ==
  IF i > Len(seq) THEN <<>>
  ELSE (IF seq[i] \in keep THEN <<seq[i]>> ELSE <<>>) \o SelectFrom(seq, keep, i + 1)

\* The filter of evaluateResource: the enabled rules of the resource type.
getEffective(rs, resourceType) ==
  SelectFrom(rs, {r \in {rs[i] : i \in 1..Len(rs)} :
                    r.enabled /\ r.scope = resourceType}, 1)

\* groupBy(items, property): the count of items per value of the property.
groupBy(items, property) ==
  [k \in {items[i][property] : i \in 1..Len(items)} |->
     Cardinality({i \in 1..Len(items) : items[i][property] = k})]

\* The bucket taken from the first action of the rule alone.
BucketOfFirstAction(rule) ==
  IF rule.actions[1].type = "deny" THEN "violations" ELSE "warnings"

\* The bucket of the records of one rule.
Bucket(rule) == IF HasDeny(rule) THEN "violations" ELSE "warnings"

RECURSIVE CollectFrom(_, _, _, _)
\* The records of the rules of `enabledRules` that go to `bucket`, in rule order.
CollectFrom(enabledRules, resource, bucket, i) ==
  IF i > Len(enabledRules) THEN <<>>
  ELSE (IF Bucket(enabledRules[i]) = bucket
          THEN evaluateRule(enabledRules[i], resource) ELSE <<>>)
       \o CollectFrom(enabledRules, resource, bucket, i + 1)

\* A summary whose failedRules counts the records.
SummaryCountingRecords(totalRules, all) ==
  [totalRules |-> totalRules,
   passedRules |-> totalRules - Len(all),
   failedRules |-> Len(all),
   violationsBySeverity |-> groupBy(all, "severity"),
   violationsByCategory |-> groupBy(all, "category")]

\* The summary of evaluateResource, from the number of rules considered and
\* the records of both buckets.
Summary(totalRules, all) ==
  [totalRules |-> totalRules,
   passedRules |-> totalRules - Cardinality({all[i].ruleId : i \in 1..Len(all)}),
   failedRules |-> Cardinality({all[i].ruleId : i \in 1..Len(all)}),
   violationsBySeverity |-> groupBy(all, "severity"),
   violationsByCategory |-> groupBy(all, "category")]

\* passed computed from the records of both buckets.
EvaluationResultAnyRecord(totalRules, violations, warnings) ==
  [passed |-> Len(violations \o warnings) = 0,
   violations |-> violations,
   warnings |-> warnings,
   summary |-> Summary(totalRules, violations \o warnings)]

\* The value evaluateResource returns.
EvaluationResult(totalRules, violations, warnings) ==
  [passed |-> Len(violations) = 0,
   violations |-> violations,
   warnings |-> warnings,
   summary |-> Summary(totalRules, violations \o warnings)]

\* evaluateResource(resource, resourceType) on the catalog rs.
evaluateResource(rs, resource, resourceType) ==
  EvaluationResult(Len(getEffective(rs, resourceType)),
                   CollectFrom(getEffective(rs, resourceType), resource, "violations", 1),
                   CollectFrom(getEffective(rs, resourceType), resource, "warnings", 1))

(***************************************************************************)
(* The built-in rules of loadDefaultPolicies                               *)
(***************************************************************************)
defaultPolicies ==
  <<[id |-> "sec-001", severity |-> "high", category |-> "security",
     enabled |-> TRUE, scope |-> "deployment",
     conditions |->
       <<[field |-> <<"spec", "template", "spec", "containers", "[*]", "securityContext">>,
          operator |-> "exists", value |-> Bool(TRUE)]>>,
     actions |->
       <<[type |-> "warn", autoFix |-> TRUE, fixAction |-> "add_default_security_context"]>>],
    [id |-> "sec-002", severity |-> "critical", category |-> "security",
     enabled |-> TRUE, scope |-> "deployment",
     conditions |->
       <<[field |-> <<"spec", "template", "spec", "containers", "[*]", "securityContext", "privileged">>,
          operator |-> "not_equals", value |-> Bool(TRUE)]>>,
     actions |->
       <<[type |-> "deny", autoFix |-> TRUE, fixAction |-> "remove_privileged_flag"]>>],
    [id |-> "sec-003", severity |-> "high", category |-> "security",
     enabled |-> TRUE, scope |-> "deployment",
     conditions |->
       <<[field |-> <<"spec", "template", "spec", "containers", "[*]", "securityContext", "runAsNonRoot">>,
          operator |-> "equals", value |-> Bool(TRUE)]>>,
     actions |->
       <<[type |-> "warn", autoFix |-> TRUE, fixAction |-> "set_non_root_user"]>>],
    [id |-> "res-001", severity |-> "medium", category |-> "performance",
     enabled |-> TRUE, scope |-> "deployment",
     conditions |->
       <<[field |-> <<"spec", "template", "spec", "containers", "[*]", "resources", "limits", "cpu">>,
          operator |-> "exists", value |-> Bool(TRUE)],
         [field |-> <<"spec", "template", "spec", "containers", "[*]", "resources", "limits", "memory">>,
          operator |-> "exists", value |-> Bool(TRUE)]>>,
     actions |->
       <<[type |-> "warn", autoFix |-> TRUE, fixAction |-> "add_default_resource_limits"]>>],
    [id |-> "res-002", severity |-> "medium", category |-> "cost",
     enabled |-> TRUE, scope |-> "deployment",
     conditions |->
       <<[field |-> <<"spec", "template", "spec", "containers", "[*]", "resources", "limits", "cpu">>,
          operator |-> "less_than", value |-> Str(<<"2", "0", "0", "0", "m">>)]>>,
     actions |->
       <<[type |-> "warn", autoFix |-> FALSE, fixAction |-> ""]>>],
    [id |-> "ops-001", severity |-> "medium", category |-> "operations",
     enabled |-> TRUE, scope |-> "deployment",
     conditions |->
       <<[field |-> <<"spec", "template", "spec", "containers", "[*]", "readinessProbe">>,
          operator |-> "exists", value |-> Bool(TRUE)],
         [field |-> <<"spec", "template", "spec", "containers", "[*]", "livenessProbe">>,
          operator |-> "exists", value |-> Bool(TRUE)]>>,
     actions |->
       <<[type |-> "warn", autoFix |-> TRUE, fixAction |-> "add_default_health_checks"]>>],
    [id |-> "ops-002", severity |-> "low", category |-> "operations",
     enabled |-> TRUE, scope |-> "deployment",
     conditions |->
       <<[field |-> <<"metadata", "labels", "app">>,
          operator |-> "exists", value |-> Bool(TRUE)],
         [field |-> <<"metadata", "labels", "version">>,
          operator |-> "exists", value |-> Bool(TRUE)],
         [field |-> <<"metadata", "labels", "component">>,
          operator |-> "exists", value |-> Bool(TRUE)]>>,
     actions |->
       <<[type |-> "warn", autoFix |-> FALSE, fixAction |-> ""]>>],
    [id |-> "comp-001", severity |-> "high", category |-> "compliance",
     enabled |-> TRUE, scope |-> "deployment",
     conditions |->
       <<[field |-> <<"spec", "template", "spec", "containers", "[*]", "image">>,
          operator |-> "regex_match", value |-> Str(<<"^", "(", "g", "h", "c", "r", "\\", ".", "i", "o", "|", "r", "e", "g", "i", "s", "t", "r", "y", "\\", ".", "c", "o", "m", "p", "a", "n", "y", "\\", ".", "c", "o", "m", "|", "d", "o", "c", "k", "e", "r", "\\", ".", "i", "o", "/", "l", "i", "b", "r", "a", "r", "y", ")">>)]>>,
     actions |->
       <<[type |-> "deny", autoFix |-> FALSE, fixAction |-> ""]>>],
    [id |-> "comp-002", severity |-> "medium", category |-> "compliance",
     enabled |-> TRUE, scope |-> "deployment",
     conditions |->
       <<[field |-> <<"spec", "template", "spec", "containers", "[*]", "image">>,
          operator |-> "not_contains", value |-> Str(<<":", "l", "a", "t", "e", "s", "t">>)]>>,
     actions |->
       <<[type |-> "warn", autoFix |-> FALSE, fixAction |-> ""]>>]>>

(***************************************************************************)
(* Custom rules of configuration files.  They address one container by its *)
(* index instead of the projection, as getNestedValue allows.              *)
(***************************************************************************)
\* A custom rule that takes the id of a built-in rule.
CustomSec ==
  [id |-> "sec-001", severity |-> "critical", category |-> "security",
   enabled |-> TRUE, scope |-> "deployment",
   conditions |->
     <<[field |-> <<"spec", "template", "spec", "containers", "0", "securityContext">>,
        operator |-> "exists", value |-> Bool(TRUE)],
       [field |-> <<"spec", "template", "spec", "containers", "0", "securityContext", "runAsNonRoot">>,
        operator |-> "equals", value |-> Bool(TRUE)]>>,
   actions |->
     <<[type |-> "deny", autoFix |-> TRUE, fixAction |-> "add_default_security_context"]>>]

\* dev-001 of docs/POLICY_AS_CODE.md, on the cpu limit of the first container.
CustomDev ==
  [id |-> "dev-001", severity |-> "low", category |-> "cost",
   enabled |-> TRUE, scope |-> "deployment",
   conditions |->
     <<[field |-> <<"spec", "template", "spec", "containers", "0", "resources", "limits", "cpu">>,
        operator |-> "less_than", value |-> Str(<<"2", "0", "0", "0", "m">>)]>>,
   actions |->
     <<[type |-> "warn", autoFix |-> FALSE, fixAction |-> ""]>>]

\* acme-001 of docs/EXTERNAL_POLICY_CONFIG.md, with a second action and a
\* fix declared without a routine.
CustomAcme ==
  [id |-> "acme-001", severity |-> "high", category |-> "compliance",
   enabled |-> TRUE, scope |-> "deployment",
   conditions |->
     <<[field |-> <<"metadata", "labels", "app">>,
        operator |-> "exists", value |-> Bool(TRUE)],
       [field |-> <<"spec", "template", "spec", "containers", "0", "image">>,
        operator |-> "regex_match", value |-> Str(<<"^", "g", "h", "c", "r", "\\", ".", "i", "o", "/">>)]>>,
   actions |->
     <<[type |-> "warn", autoFix |-> TRUE, fixAction |-> ""],
       [type |-> "deny", autoFix |-> FALSE, fixAction |-> ""]>>]


(***************************************************************************)
(* Resource documents                                                      *)
(***************************************************************************)
MaxDeployments == 2

Names == 1..MaxDeployments

NobodyUser == 65534

HealthPort == 8080

LivenessDelay == 30

LivenessPeriod == 10

ReadinessDelay == 5

ReadinessPeriod == 5

DefaultSecurityContext ==
  Obj([allowPrivilegeEscalation |-> Bool(FALSE),
       runAsNonRoot |-> Bool(TRUE),
       readOnlyRootFilesystem |-> Bool(TRUE),
       capabilities |-> Obj([drop |-> Arr(<<Str(<<"A", "L", "L">>)>>)])])

\* The limits default with the values of the requests default.
DefaultLimitsAsRequests == Obj([cpu |-> Str(<<"1", "0", "0", "m">>), memory |-> Str(<<"1", "2", "8", "M", "i">>)])

DefaultLimits == Obj([cpu |-> Str(<<"5", "0", "0", "m">>), memory |-> Str(<<"5", "1", "2", "M", "i">>)])

DefaultRequests == Obj([cpu |-> Str(<<"1", "0", "0", "m">>), memory |-> Str(<<"1", "2", "8", "M", "i">>)])

DefaultLivenessProbe ==
  Obj([httpGet |-> Obj([path |-> Str(<<"/", "h", "e", "a", "l", "t", "h">>),
                        port |-> Num(HealthPort)]),
       initialDelaySeconds |-> Num(LivenessDelay),
       periodSeconds |-> Num(LivenessPeriod)])

DefaultReadinessProbe ==
  Obj([httpGet |-> Obj([path |-> Str(<<"/", "r", "e", "a", "d", "y">>),
                        port |-> Num(HealthPort)]),
       initialDelaySeconds |-> Num(ReadinessDelay),
       periodSeconds |-> Num(ReadinessPeriod)])

\* A container with nothing but an image, "x/a:latest".
ContainerBare == Obj([image |-> Str(<<"x", "/", "a", ":", "l", "a", "t", "e", "s", "t">>)])

\* A container with every field the rules look at: an image of ghcr.io,
\* limits {cpu: "100m", memory: "128Mi"}, requests {cpu: "100m"} and two
\* probes an operator wrote, different from the injected ones.
ContainerFull ==
  Obj([image |-> Str(<<"g", "h", "c", "r", ".", "i", "o", "/", "a", ":", "1">>),
       securityContext |-> Obj([runAsNonRoot |-> Bool(TRUE), runAsUser |-> Num(1000)]),
       resources |-> Obj([limits |-> Obj([cpu |-> Str(<<"1", "0", "0", "m">>), memory |-> Str(<<"1", "2", "8", "M", "i">>)]),
                          requests |-> Obj([cpu |-> Str(<<"1", "0", "0", "m">>)])]),
       livenessProbe |-> Obj([tcpSocket |-> Obj([port |-> Num(HealthPort)])]),
       readinessProbe |-> Obj([tcpSocket |-> Obj([port |-> Num(HealthPort)])])])

\* A privileged container with a cpu limit of "2500m" and no requests.
ContainerPrivileged ==
  Obj([image |-> Str(<<"g", "h", "c", "r", ".", "i", "o", "/", "a", ":", "1">>),
       securityContext |-> Obj([privileged |-> Bool(TRUE)]),
       resources |-> Obj([limits |-> Obj([cpu |-> Str(<<"2", "5", "0", "0", "m">>)])]),
       livenessProbe |-> Obj([tcpSocket |-> Obj([port |-> Num(HealthPort)])])])

\* A container that states privileged: false and runs as root.
ContainerRoot ==
  Obj([image |-> Str(<<"x", "/", "a", ":", "l", "a", "t", "e", "s", "t">>),
       securityContext |-> Obj([privileged |-> Bool(FALSE),
                                runAsNonRoot |-> Bool(FALSE),
                                runAsUser |-> Num(0)]),
       resources |-> Obj(<<>>)])

\* The documents the cluster may hold at the start (name and namespace are
\* added by Deployment): the labels, or Undef for none, and the containers.
Templates ==
  {[labels |-> Undef, containers |-> <<>>],
   [labels |-> Undef, containers |-> <<ContainerBare>>],
   [labels |-> Obj([app |-> Str(<<"a">>), version |-> Str(<<"1">>),
                    component |-> Str(<<"c">>)]),
    containers |-> <<ContainerFull>>],
   [labels |-> Obj([app |-> Str(<<"a">>)]), containers |-> <<ContainerPrivileged>>],
   [labels |-> Obj([app |-> Str(<<"a">>)]), containers |-> <<ContainerRoot>>],
   [labels |-> Obj([app |-> Str(<<"a">>), version |-> Str(<<"1">>),
                    component |-> Str(<<"c">>)]),
    containers |-> <<ContainerBare, ContainerFull>>]}

\* Deployments with an odd name are in namespace prod, the others in dev.
NamespaceOf(i) == IF i % 2 = 1 THEN "prod" ELSE "dev"

\* The deployment named d<i> made from a template.
Deployment(i, tpl) ==
  Obj([metadata |->
         Obj([k \in {"name", "namespace"} \cup
                     (IF IsUndef(tpl.labels) THEN {} ELSE {"labels"}) |->
                CASE k = "name" -> Str(<<"d", Digits[i + 1]>>)
                  [] k = "namespace" ->
                       Str(IF NamespaceOf(i) = "prod" THEN <<"p", "r", "o", "d">>
                           ELSE <<"d", "e", "v">>)
                  [] OTHER -> tpl.labels]),
       spec |-> Obj([template |->
                       Obj([spec |-> Obj([containers |-> Arr(tpl.containers)])])])])

(***************************************************************************)
(* The rule map (a Map keeps the order of first insertion)                 *)
(***************************************************************************)
RuleIds(rs) == {rs[i].id : i \in 1..Len(rs)}

\* A list in place of the Map: every registration adds an entry.
MapSetAppend(rs, rule) == Append(rs, rule)

\* this.rules.set(rule.id, rule)
MapSet(rs, rule) ==
  IF rule.id \in RuleIds(rs)
  THEN [i \in 1..Len(rs) |-> IF rs[i].id = rule.id THEN rule ELSE rs[i]]
  ELSE Append(rs, rule)

\* this.rules.delete(ruleId)
MapDelete(rs, ruleId) ==
  SelectFrom(rs, {r \in {rs[i] : i \in 1..Len(rs)} : r.id # ruleId}, 1)

RECURSIVE MapSetAll(_, _, _)
MapSetAll(rs, list, i) ==
  IF i > Len(list) THEN rs ELSE MapSetAll(MapSet(rs, list[i]), list, i + 1)

\* loadDefaultPolicies()
loadDefaultPolicies(rs) == MapSetAll(rs, defaultPolicies, 1)

(***************************************************************************)
(* Configurations                                                          *)
(***************************************************************************)
\* An override that changes the severity and leaves enabled as it was.
ApplyOverrideSeverityOnly(rs, ov) ==
  [i \in 1..Len(rs) |->
     IF rs[i].id # ov.ruleId THEN rs[i]
     ELSE IF ov.severity # "" THEN [rs[i] EXCEPT !.severity = ov.severity] ELSE rs[i]]

\* One entry of ruleOverrides, keyed by ruleId: enabled is a boolean or
\* undefined, severity a severity or "" when it is not given.  The entry is
\* applied to the rule it names.
ApplyOverride(rs, ov) ==
  [i \in 1..Len(rs) |->
     IF rs[i].id # ov.ruleId THEN rs[i]
     ELSE LET r1 == IF ~IsUndef(ov.enabled)
                      THEN [rs[i] EXCEPT !.enabled = ov.enabled.b] ELSE rs[i]
          IN IF ov.severity # "" THEN [r1 EXCEPT !.severity = ov.severity] ELSE r1]

RECURSIVE ApplyOverrides(_, _, _)
ApplyOverrides(rs, ovs, i) ==
  IF i > Len(ovs) THEN rs ELSE ApplyOverrides(ApplyOverride(rs, ovs[i]), ovs, i + 1)

\* A categories entry that reaches the built-in rules only.
ApplyCategoryDefaultsOnly(rs, entry) ==
  [i \in 1..Len(rs) |->
     IF /\ rs[i].category = entry.category
        /\ ~entry.enabled
        /\ \E k \in 1..Len(defaultPolicies) : defaultPolicies[k] = rs[i]
     THEN [rs[i] EXCEPT !.enabled = FALSE] ELSE rs[i]]

\* One entry of categories, keyed by category: every rule of the category is disabled when the
\* entry is not enabled.
ApplyCategory(rs, entry) ==
  [i \in 1..Len(rs) |->
     IF rs[i].category = entry.category /\ ~entry.enabled
     THEN [rs[i] EXCEPT !.enabled = FALSE] ELSE rs[i]]

RECURSIVE ApplyCategories(_, _, _)
ApplyCategories(rs, cats, i) ==
  IF i > Len(cats) THEN rs ELSE ApplyCategories(ApplyCategory(rs, cats[i]), cats, i + 1)

\* The categories applied before the overrides and the custom rules.
applyConfigurationCategoriesFirst(rs, cfg) ==
  IF ~cfg.loaded THEN rs
  ELSE MapSetAll(ApplyOverrides(ApplyCategories(rs, cfg.categories, 1),
                                cfg.ruleOverrides, 1),
                 cfg.customRules, 1)

\* applyConfiguration(): overrides, then custom rules, then categories.
applyConfiguration(rs, cfg) ==
  IF ~cfg.loaded THEN rs
  ELSE ApplyCategories(
         MapSetAll(ApplyOverrides(rs, cfg.ruleOverrides, 1), cfg.customRules, 1),
         cfg.categories, 1)

\* The last statement of applyConfiguration reads config.organization.name
\* and raises a TypeError when the document has no organization.
ConstructorThrows(cfg) == cfg.loaded /\ ~cfg.organization

\* No configuration: no path, no file at the path, or a file that is not JSON.
NoConfig ==
  [loaded |-> FALSE, organization |-> FALSE, ruleOverrides |-> <<>>,
   customRules |-> <<>>, categories |-> <<>>]

Config(organization, ruleOverrides, customRules, categories) ==
  [loaded |-> TRUE, organization |-> organization, ruleOverrides |-> ruleOverrides,
   customRules |-> customRules, categories |-> categories]

ConfigPlain == Config(TRUE, <<>>, <<>>, <<>>)

ConfigOverrides ==
  Config(TRUE,
         <<[ruleId |-> "sec-001", enabled |-> Bool(FALSE), severity |-> ""],
           [ruleId |-> "res-001", enabled |-> Undef, severity |-> "critical"],
           [ruleId |-> "nope-999", enabled |-> Bool(FALSE), severity |-> ""]>>,
         <<CustomAcme>>,
         <<[category |-> "security", enabled |-> TRUE]>>)

\* An override that disables sec-001 and a custom rule with the same id.
ConfigCollision ==
  Config(TRUE, <<[ruleId |-> "sec-001", enabled |-> Bool(FALSE), severity |-> ""]>>, <<CustomSec>>, <<>>)

ConfigNoCost ==
  Config(TRUE,
         <<[ruleId |-> "res-002", enabled |-> Bool(TRUE), severity |-> "high"]>>,
         <<CustomDev>>,
         <<[category |-> "cost", enabled |-> FALSE], [category |-> "security", enabled |-> TRUE]>>)

ConfigDevelopment ==
  Config(TRUE, <<>>, <<CustomDev>>, <<[category |-> "compliance", enabled |-> FALSE]>>)

ConfigNoOrganization ==
  Config(FALSE, <<>>, <<>>, <<[category |-> "cost", enabled |-> FALSE]>>)

ConfigSet ==
  {NoConfig, ConfigPlain, ConfigOverrides, ConfigCollision, ConfigNoCost,
   ConfigDevelopment, ConfigNoOrganization}

(***************************************************************************)
(* Fix routines                                                            *)
(***************************************************************************)
\* v?.key
OptChain(v, key) == IF IsNullish(v) THEN Undef ELSE GetProp(v, key)

\* deployment.spec?.template?.spec?.containers
ContainersValue(deployment) ==
  OptChain(OptChain(OptChain(GetProp(deployment, "spec"), "template"), "spec"),
           "containers")

\* ... || []
Containers(deployment) ==
  IF Truthy(ContainersValue(deployment)) THEN ContainersValue(deployment).a ELSE <<>>

\* The deployment after its containers were changed in place; the empty
\* array of the fallback belongs to no document.
WithContainers(deployment, cs) ==
  IF ~Truthy(ContainersValue(deployment)) THEN deployment
  ELSE LET spec == GetProp(deployment, "spec")
           template == GetProp(spec, "template")
           pod == GetProp(template, "spec")
       IN SetProp(deployment, "spec",
            SetProp(spec, "template",
              SetProp(template, "spec", SetProp(pod, "containers", Arr(cs)))))

\* if (!obj[key]) obj[key] = val
SetIfMissing(obj, key, val) ==
  IF ~Truthy(GetProp(obj, key)) THEN SetProp(obj, key, val) ELSE obj

\* addDefaultSecurityContext, for one container
AddSecurityContextTo(container) ==
  SetIfMissing(container, "securityContext", DefaultSecurityContext)

\* removePrivilegedFlag, for one container
RemovePrivilegedFrom(container) ==
  IF Truthy(OptChain(GetProp(container, "securityContext"), "privileged"))
  THEN SetProp(container, "securityContext",
               DelProp(GetProp(container, "securityContext"), "privileged"))
  ELSE container

\* setNonRootUser, for one container
SetNonRootOn(container) ==
  IF ~Truthy(GetProp(GetProp(container, "securityContext"), "runAsNonRoot"))
  THEN SetProp(container, "securityContext",
               SetProp(SetProp(GetProp(SetIfMissing(container, "securityContext",
                                                    Obj(<<>>)),
                                       "securityContext"),
                               "runAsNonRoot", Bool(TRUE)),
                       "runAsUser", Num(NobodyUser)))
  ELSE container

\* The limits routine writing both defaults whatever the container has.
AddResourceLimitsToAlways(container) ==
  SetProp(container, "resources",
          SetProp(SetProp(GetProp(SetIfMissing(container, "resources", Obj(<<>>)),
                                  "resources"),
                          "limits", DefaultLimits),
                  "requests", DefaultRequests))

\* addDefaultResourceLimits, for one container
AddResourceLimitsTo(container) ==
  SetProp(container, "resources",
          SetIfMissing(SetIfMissing(GetProp(SetIfMissing(container, "resources",
                                                         Obj(<<>>)),
                                            "resources"),
                                    "limits", DefaultLimits),
                       "requests", DefaultRequests))

\* addDefaultHealthChecks, for one container
AddHealthChecksTo(container) ==
  SetIfMissing(SetIfMissing(container, "livenessProbe", DefaultLivenessProbe),
               "readinessProbe", DefaultReadinessProbe)

FixActions ==
  {"add_default_security_context", "remove_privileged_flag", "set_non_root_user",
   "add_default_resource_limits", "add_default_health_checks"}

\* What one routine does to one container.
FixContainer(fixAction, container) ==
  CASE fixAction = "add_default_security_context" -> AddSecurityContextTo(container)
    [] fixAction = "remove_privileged_flag" -> RemovePrivilegedFrom(container)
    [] fixAction = "set_non_root_user" -> SetNonRootOn(container)
    [] fixAction = "add_default_resource_limits" -> AddResourceLimitsTo(container)
    [] fixAction = "add_default_health_checks" -> AddHealthChecksTo(container)
    [] OTHER -> container

\* Whether the routine sets its `modified` flag for the container.
FixModifies(fixAction, container) ==
  CASE fixAction = "add_default_security_context" ->
         ~Truthy(GetProp(container, "securityContext"))
    [] fixAction = "remove_privileged_flag" ->
         Truthy(OptChain(GetProp(container, "securityContext"), "privileged"))
    [] fixAction = "set_non_root_user" ->
         ~Truthy(GetProp(GetProp(container, "securityContext"), "runAsNonRoot"))
    [] fixAction = "add_default_resource_limits" ->
         \/ ~Truthy(GetProp(GetProp(container, "resources"), "limits"))
         \/ ~Truthy(GetProp(GetProp(container, "resources"), "requests"))
    [] fixAction = "add_default_health_checks" ->
         \/ ~Truthy(GetProp(container, "livenessProbe"))
         \/ ~Truthy(GetProp(container, "readinessProbe"))
    [] OTHER -> FALSE

\* applyAutoFix(deployment, fixAction, violation): the deployment after the
\* routine and the boolean the routine returns.
applyAutoFix(deployment, fixAction) ==
  LET cs == Containers(deployment)
  IN [doc |-> WithContainers(deployment,
                [i \in 1..Len(cs) |-> FixContainer(fixAction, cs[i])]),
      modified |-> \E i \in 1..Len(cs) : FixModifies(fixAction, cs[i])]

\* this.rules.get(ruleId)
MapHas(rs, ruleId) == ruleId \in RuleIds(rs)
MapGet(rs, ruleId) == rs[CHOOSE i \in 1..Len(rs) : rs[i].id = ruleId]

\* rule.actions.find(a => a.autoFix)?.fixAction; "" stands for undefined.
FixActionOf(rule) ==
  LET marked == {i \in 1..Len(rule.actions) : rule.actions[i].autoFix}
  IN IF marked = {} THEN ""
     ELSE rule.actions[CHOOSE i \in marked : \A j \in marked : i <= j].fixAction

\* Every fix marks the deployment as modified, whatever the routine returned.
CountedAlwaysModified(st, r) ==
  IF r.modified
  THEN [st EXCEPT !.doc = r.doc, !.fixed = @ + 1, !.modified = TRUE]
  ELSE [st EXCEPT !.failed = @ + 1, !.modified = TRUE]

\* The counters after one fix returned r.
Counted(st, r) ==
  IF r.modified
  THEN [st EXCEPT !.doc = r.doc, !.fixed = @ + 1, !.modified = TRUE]
  ELSE [st EXCEPT !.failed = @ + 1]

\* The loop ends at the first routine that fails.
autoFixStepStopsAtFailure(rs, violation, st) ==
  IF \/ ~violation.canAutoFix
     \/ ~MapHas(rs, violation.ruleId)
     \/ FixActionOf(MapGet(rs, violation.ruleId)) = ""
     \/ st.failed > 0
  THEN st
  ELSE Counted(st, applyAutoFix(st.doc, FixActionOf(MapGet(rs, violation.ruleId))))

\* One iteration of the loop on the state st: `continue` when the record is
\* not fixable, its rule is not in the map or no action of the rule names a
\* routine; a routine that returns false counts as failed.
autoFixStep(rs, violation, st) ==
  IF \/ ~violation.canAutoFix
     \/ ~MapHas(rs, violation.ruleId)
     \/ FixActionOf(MapGet(rs, violation.ruleId)) = ""
  THEN st
  ELSE Counted(st, applyAutoFix(st.doc, FixActionOf(MapGet(rs, violation.ruleId))))

RECURSIVE autoFixLoop(_, _, _)
\* The loop of autoFixViolations over the first i of violations.list, starting from the
\* deployment violations.doc.
autoFixLoop(rs, violations, i) ==
  IF i = 0
  THEN [doc |-> violations.doc, fixed |-> 0, failed |-> 0, errors |-> <<>>,
        modified |-> FALSE]
  ELSE autoFixStep(rs, violations.list[i], autoFixLoop(rs, violations, i - 1))

\* autoFixViolations on the deployment that was read: the counters, the
\* deployment after the loop and whether it is written back.
autoFixViolations(rs, deployment, violations) ==
  autoFixLoop(rs, [doc |-> deployment, list |-> violations], Len(violations))

(***************************************************************************)
(* Compliance report                                                       *)
(***************************************************************************)
RECURSIVE SumOver(_, _, _)
\* The sum of f[i] for i in from..to.
SumOver(f, from, to) == IF from > to THEN 0 ELSE f[from] + SumOver(f, from + 1, to)

RECURSIVE FlatMap(_, _)
\* lists.flatMap(x => x) from position i on.
FlatMap(lists, i) == IF i > Len(lists) THEN <<>> ELSE lists[i] \o FlatMap(lists, i + 1)

\* The groups merged as Object.assign would: per key, the count of the last
\* group that has it.
mergeGroupsAssign(groups) ==
  [k \in UNION {DOMAIN groups[i] : i \in 1..Len(groups)} |->
     groups[CHOOSE i \in 1..Len(groups) :
              /\ k \in DOMAIN groups[i]
              /\ \A j \in 1..Len(groups) : k \in DOMAIN groups[j] => j <= i][k]]

\* The groups merged without adding: per key, the count of the first
\* group that has it.
mergeGroupsKeepFirst(groups) ==
  [k \in UNION {DOMAIN groups[i] : i \in 1..Len(groups)} |->
     groups[CHOOSE i \in 1..Len(groups) :
              /\ k \in DOMAIN groups[i]
              /\ \A j \in 1..Len(groups) : k \in DOMAIN groups[j] => i <= j][k]]

\* mergeGroups(groups)
mergeGroups(groups) ==
  LET keys == UNION {DOMAIN groups[i] : i \in 1..Len(groups)}
  IN [k \in keys |->
        SumOver([i \in 1..Len(groups) |->
                   IF k \in DOMAIN groups[i] THEN groups[i][k] ELSE 0],
                1, Len(groups))]

\* The percentage cut after two decimals instead of rounded.
RoundedPercentTruncated(passedChecks, totalChecks) ==
  (passedChecks * 10000) \div totalChecks

\* Math.round(x * 100) / 100 for x = passed / total * 100, in hundredths
\* of a percent.
RoundedPercent(passedChecks, totalChecks) ==
  (2 * passedChecks * 10000 + totalChecks) \div (2 * totalChecks)

FullCompliance == 10000

\* The overallCompliance of a report, in hundredths of a percent.
overallCompliance(passedChecks, totalChecks) ==
  IF totalChecks > 0 THEN RoundedPercent(passedChecks, totalChecks) ELSE FullCompliance

\* generateRecommendations(result): one entry per category with a record,
\* and the number of records that can be fixed.
generateRecommendations(result) ==
  LET all == result.violations \o result.warnings
      has(category) == \E i \in 1..Len(all) : all[i].category = category
      rec(category) == IF has(category) THEN <<[about |-> category, count |-> 0]>>
                       ELSE <<>>
      fixable == Cardinality({i \in 1..Len(all) : all[i].canAutoFix})
  IN rec("security") \o rec("performance") \o rec("operations") \o rec("compliance")
     \o (IF fixable > 0 THEN <<[about |-> "auto-fix", count |-> fixable]>> ELSE <<>>)

\* The aggregation of generateComplianceReport over the listed deployments.
aggregate(allResults) ==
  LET n == Len(allResults)
  IN [passed |-> \A i \in 1..n : allResults[i].passed,
      violations |-> FlatMap([i \in 1..n |-> allResults[i].violations], 1),
      warnings |-> FlatMap([i \in 1..n |-> allResults[i].warnings], 1),
      summary |->
        [totalRules |-> SumOver([i \in 1..n |-> allResults[i].summary.totalRules], 1, n),
         passedRules |-> SumOver([i \in 1..n |-> allResults[i].summary.passedRules], 1, n),
         failedRules |-> SumOver([i \in 1..n |-> allResults[i].summary.failedRules], 1, n),
         violationsBySeverity |->
           mergeGroups([i \in 1..n |-> allResults[i].summary.violationsBySeverity]),
         violationsByCategory |->
           mergeGroups([i \in 1..n |-> allResults[i].summary.violationsByCategory])]]

\* generateComplianceReport on the listed deployments.
\* The report built from the aggregated result.
ReportOf(aggregatedResult) ==
  [overallCompliance |->
     overallCompliance(aggregatedResult.summary.passedRules,
                       aggregatedResult.summary.totalRules),
   results |-> aggregatedResult,
   recommendations |-> generateRecommendations(aggregatedResult)]

complianceReport(rs, deployments) ==
  ReportOf(aggregate([i \in 1..Len(deployments) |->
                        evaluateResource(rs, deployments[i], "deployment")]))

(***************************************************************************)
(* State                                                                   *)
(*   rules[e]    the rule map of engine e, in insertion order              *)
(*   config[e]   the configuration engine e loaded                         *)
(*   built[e]    "none", "ok", or "threw" when the constructor raised      *)
(*   touched[e]  the ids that addRule or toggleRule(id, true) were called  *)
(*               with since the construction of e (history)                *)
(*   ops         the number of addRule, removeRule and toggleRule calls    *)
(*               made so far (history)                                     *)
(*   cluster     the deployments of the cluster, by name                   *)
(*   last        the last call and what it returned                        *)
(***************************************************************************)
Engines == {1, 2}

\* The engine of the server (index.ts main); engine 2 is a second instance,
\* as preview_policy_impact builds one.
Server == 1

\* The number of addRule, removeRule and toggleRule calls a behaviour makes.
MaxOps == 2

Scopes == {"", "prod", "dev", "staging"}

\* The name of a deployment the cluster does not hold.
Missing == 0

ResourceTypes == {"deployment", "pod"}

Unbuilt ==
  /\ rules = [e \in Engines |-> <<>>]
  /\ config = [e \in Engines |-> NoConfig]
  /\ built = [e \in Engines |-> "none"]
  /\ touched = [e \in Engines |-> {}]
  /\ ops = 0
  /\ last = [op |-> "none"]

Init ==
  /\ Unbuilt
  /\ \E tpl \in [Names -> Templates] : cluster = [i \in Names |-> Deployment(i, tpl[i])]

\* A constructor that fills one rule map held in common by the engines.
ConstructingShared(e, cfg) ==
  /\ built[e] = "none"
  /\ config' = [config EXCEPT ![e] = cfg]
  /\ IF ConstructorThrows(cfg)
     THEN /\ built' = [built EXCEPT ![e] = "threw"]
          /\ UNCHANGED rules
     ELSE /\ built' = [built EXCEPT ![e] = "ok"]
          /\ rules' = [x \in Engines |->
                         IF x = e \/ built[x] = "ok"
                         THEN applyConfiguration(loadDefaultPolicies(<<>>), cfg)
                         ELSE rules[x]]
  /\ UNCHANGED <<touched, ops, cluster>>

\* The constructor of PolicyEngine on engine e, with the configuration cfg
\* that the file at configPath yields: loadConfiguration,
\* loadDefaultPolicies, applyConfiguration.
Constructing(e, cfg) ==
  /\ built[e] = "none"
  /\ config' = [config EXCEPT ![e] = cfg]
  /\ IF ConstructorThrows(cfg)
     THEN /\ built' = [built EXCEPT ![e] = "threw"]
          /\ UNCHANGED rules
     ELSE /\ built' = [built EXCEPT ![e] = "ok"]
          /\ rules' = [rules EXCEPT ![e] = applyConfiguration(loadDefaultPolicies(<<>>), cfg)]
  /\ UNCHANGED <<touched, ops, cluster>>

\* new PolicyEngine(kubeConfig, configPath), with the configuration the path
\* yields.
Construct(e, cfg) ==
  /\ Constructing(e, cfg)
  /\ last' = [op |-> "construct", engine |-> e, threw |-> ConstructorThrows(cfg),
              others |-> [x \in Engines \ {e} |-> rules[x]]]

\* What loadConfiguration(configPath) leaves in this.config: the document of
\* the file, or nothing when there is no path ("" stands for undefined) or
\* no file.  The files are the two main chooses by NODE_ENV and a file of
\* the operator's, the value of POLICY_CONFIG_PATH.
FileAt(configPath) ==
  CASE configPath = "./config/policies/production.json" -> ConfigOverrides
    [] configPath = "./config/policies/development.json" -> ConfigCollision
    [] configPath = "/etc/k8s-policies/custom.json" -> ConfigDevelopment
    [] OTHER -> NoConfig

\* The path main computes from the environment:
\*   process.env.POLICY_CONFIG_PATH || process.env.NODE_ENV === 'production'
\*     ? production : process.env.NODE_ENV === 'development' ? development
\*     : undefined
\* The conditional operator binds weaker than ||, so the first test is
\* (POLICY_CONFIG_PATH || NODE_ENV === 'production').  "" stands for a
\* variable that is not set.
policyConfigPath(POLICY_CONFIG_PATH, NODE_ENV) ==
  IF POLICY_CONFIG_PATH # "" \/ NODE_ENV = "production"
  THEN "./config/policies/production.json"
  ELSE IF NODE_ENV = "development" THEN "./config/policies/development.json"
  ELSE ""

\* main: the path from the environment, then the engine of the server.
Main(POLICY_CONFIG_PATH, NODE_ENV) ==
  /\ Constructing(Server, FileAt(policyConfigPath(POLICY_CONFIG_PATH, NODE_ENV)))
  /\ last' = [op |-> "main", engine |-> Server,
              POLICY_CONFIG_PATH |-> POLICY_CONFIG_PATH, NODE_ENV |-> NODE_ENV,
              policyConfigPath |-> policyConfigPath(POLICY_CONFIG_PATH, NODE_ENV)]

\* addRule(rule)
AddRule(e, rule) ==
  /\ built[e] = "ok"
  /\ ops < MaxOps
  /\ ops' = ops + 1
  /\ rules' = [rules EXCEPT ![e] = MapSet(@, rule)]
  /\ touched' = [touched EXCEPT ![e] = @ \cup {rule.id}]
  /\ last' = [op |-> "addRule", engine |-> e, id |-> rule.id, rule |-> rule,
              had |-> MapHas(rules[e], rule.id), size |-> Len(rules[e]),
              others |-> [x \in Engines \ {e} |-> rules[x]]]
  /\ UNCHANGED <<config, built, cluster>>

\* removeRule(ruleId)
RemoveRule(e, ruleId) ==
  /\ built[e] = "ok"
  /\ ops < MaxOps
  /\ ops' = ops + 1
  /\ rules' = [rules EXCEPT ![e] = MapDelete(@, ruleId)]
  /\ last' = [op |-> "removeRule", engine |-> e, id |-> ruleId,
              returned |-> MapHas(rules[e], ruleId), others |-> [x \in Engines \ {e} |-> rules[x]]]
  /\ UNCHANGED <<config, built, touched, cluster>>

\* toggleRule(ruleId, enabled)
toggleRule(rs, ruleId, enabled) ==
  [i \in 1..Len(rs) |->
     IF rs[i].id = ruleId THEN [rs[i] EXCEPT !.enabled = enabled] ELSE rs[i]]

ToggleRule(e, ruleId, enabled) ==
  /\ built[e] = "ok"
  /\ ops < MaxOps
  /\ ops' = ops + 1
  /\ rules' = [rules EXCEPT ![e] = toggleRule(@, ruleId, enabled)]
  /\ touched' = [touched EXCEPT ![e] = IF enabled THEN @ \cup {ruleId} ELSE @]
  /\ last' = [op |-> "toggleRule", engine |-> e, id |-> ruleId,
              returned |-> MapHas(rules[e], ruleId), others |-> [x \in Engines \ {e} |-> rules[x]]]
  /\ UNCHANGED <<config, built, cluster>>

\* evaluateDeployment(namespace, deploymentName): read, then evaluate; a
\* failed read is raised as an error.
EvaluateDeployment(e, name) ==
  /\ built[e] = "ok"
  /\ last' = IF name \in Names
             THEN [op |-> "evaluateDeployment", engine |-> e, name |-> name, ok |-> TRUE,
                   result |-> evaluateResource(rules[e], cluster[name], "deployment")]
             ELSE [op |-> "evaluateDeployment", engine |-> e, name |-> name, ok |-> FALSE]
  /\ UNCHANGED <<rules, config, built, touched, ops, cluster>>

Listed(scope) ==
  SelectSeq([i \in 1..MaxDeployments |-> i],
            LAMBDA i : scope = "" \/ NamespaceOf(i) = scope)

\* generateComplianceReport(namespace): list the deployments of the scope
\* and evaluate each item in memory.  The list call is the only access to
\* the cluster; when it fails (listed = FALSE) the catch around the whole
\* body raises 'Failed to generate compliance report' and no report exists.
GenerateComplianceReport(e, scope, listed) ==
  /\ built[e] = "ok"
  /\ last' = IF listed
             THEN [op |-> "generateComplianceReport", engine |-> e, scope |-> scope,
                   ok |-> TRUE,
                   report |-> complianceReport(rules[e],
                                [k \in 1..Len(Listed(scope)) |-> cluster[Listed(scope)[k]]])]
             ELSE [op |-> "generateComplianceReport", engine |-> e, scope |-> scope,
                   ok |-> FALSE]
  /\ UNCHANGED <<rules, config, built, touched, ops, cluster>>

\* [...violations, ...warnings].filter(v => v.canAutoFix)
Fixable(result) ==
  LET all == result.violations \o result.warnings
  IN SelectFrom(all, {v \in {all[i] : i \in 1..Len(all)} : v.canAutoFix}, 1)

\* The handler of the tool auto_fix_policy_violations (index.ts): evaluate,
\* keep the records that can be fixed, stop when there is none or on a dry
\* run, else autoFixViolations, which reads the deployment, applies the
\* fixes and writes it back when one changed it.
\* The response and the cluster after autoFixViolations returned fix.
Applied(e, name, dryRun, evaluation, fix) ==
  /\ last' = [op |-> "auto_fix_policy_violations", engine |-> e,
              name |-> name, dryRun |-> dryRun, outcome |-> "applied",
              evaluation |-> evaluation,
              before |-> cluster[name], after |-> fix.doc,
              fixed |-> fix.fixed, failed |-> fix.failed,
              errors |-> fix.errors,
              writes |-> IF fix.modified THEN 1 ELSE 0]
  /\ cluster' = IF fix.modified THEN [cluster EXCEPT ![name] = fix.doc] ELSE cluster

\* The handler without the test of dryRun.
AutoFixFromIgnoringDryRun(e, name, dryRun, evaluation) ==
  IF Fixable(evaluation) = <<>>
  THEN /\ last' = [op |-> "auto_fix_policy_violations", engine |-> e,
                   name |-> name, dryRun |-> dryRun, outcome |-> "nothing",
                   before |-> cluster[name], evaluation |-> evaluation]
       /\ UNCHANGED cluster
  ELSE Applied(e, name, dryRun, evaluation,
               autoFixViolations(rules[e], cluster[name], Fixable(evaluation)))

\* The handler from the evaluation on; fixableViolations is
\* Fixable(evaluation).
AutoFixFrom(e, name, dryRun, evaluation) ==
  IF Fixable(evaluation) = <<>> \/ dryRun
  THEN /\ last' = [op |-> "auto_fix_policy_violations", engine |-> e,
                   name |-> name, dryRun |-> dryRun,
                   outcome |-> IF Fixable(evaluation) = <<>> THEN "nothing" ELSE "preview",
                   before |-> cluster[name], evaluation |-> evaluation]
       /\ UNCHANGED cluster
  ELSE Applied(e, name, dryRun, evaluation,
               autoFixViolations(rules[e], cluster[name], Fixable(evaluation)))

\* auto_fix_policy_violations(namespace, deployment, dryRun); a failed read
\* makes evaluateDeployment raise, and the handler answers with the error.
AutoFixTool(e, name, dryRun) ==
  /\ built[e] = "ok"
  /\ IF name \notin Names
     THEN /\ last' = [op |-> "auto_fix_policy_violations", engine |-> e, name |-> name,
                      dryRun |-> dryRun, outcome |-> "error"]
          /\ UNCHANGED cluster
     ELSE AutoFixFrom(e, name, dryRun,
                      evaluateResource(rules[e], cluster[name], "deployment"))
  /\ UNCHANGED <<rules, config, built, touched, ops>>

\* The server: one engine, built at start-up, and the tools that read the
\* cluster.
Next ==
  \/ \E cfg \in ConfigSet : Construct(Server, cfg)
  \/ \E name \in Names \cup {Missing} : EvaluateDeployment(Server, name)
  \/ \E scope \in Scopes, listed \in BOOLEAN :
       GenerateComplianceReport(Server, scope, listed)

Spec == Init /\ [][Next]_vars

\* The server with the tool that writes to the cluster.
NextTool ==
  \/ \E POLICY_CONFIG_PATH \in {"", "/etc/k8s-policies/custom.json"},
        NODE_ENV \in {"", "production", "development", "test"} :
       Main(POLICY_CONFIG_PATH, NODE_ENV)
  \/ \E name \in Names \cup {Missing}, dryRun \in BOOLEAN : AutoFixTool(Server, name, dryRun)

SpecTool == Init /\ [][NextTool]_vars

(***************************************************************************)
(* The catalog: two engines, each built from a configuration of its own,   *)
(* and the operations that change a rule map after construction            *)
(***************************************************************************)
InitCatalog ==
  /\ Unbuilt
  /\ cluster = [i \in Names |->
                  Deployment(i, [labels |-> Obj([app |-> Str(<<"a">>)]),
                                 containers |-> <<ContainerPrivileged>>])]

NextCatalog ==
  \/ \E e \in Engines, cfg \in {NoConfig, ConfigCollision, ConfigNoCost} :
       Construct(e, cfg)
  \/ \E e \in Engines, rule \in {CustomDev, defaultPolicies[5]} : AddRule(e, rule)
  \/ \E e \in Engines, ruleId \in {"res-002", "sec-001"} : RemoveRule(e, ruleId)
  \/ \E e \in Engines, ruleId \in {"res-002", "sec-001"}, enabled \in BOOLEAN :
       ToggleRule(e, ruleId, enabled)
  \/ \E name \in Names : EvaluateDeployment(Server, name)

SpecCatalog == InitCatalog /\ [][NextCatalog]_vars

(***************************************************************************)
(* The fix routines, applied one after another to the deployment that      *)
(* autoFixViolations read                                                  *)
(***************************************************************************)
\* applyAutoFix(deployment, fixAction, violation) on the deployment `name`;
\* one remediation works on one deployment.
ApplyFix(name, fixAction) ==
  /\ last.op = "applyAutoFix" => last.name = name
  /\ cluster' = [cluster EXCEPT ![name] = applyAutoFix(@, fixAction).doc]
  /\ last' = [op |-> "applyAutoFix", name |-> name, fixAction |-> fixAction,
              before |-> cluster[name],
              wasFixed |-> applyAutoFix(cluster[name], fixAction).modified]
  /\ UNCHANGED <<rules, config, built, touched, ops>>

NextFix == \E name \in Names, fixAction \in FixActions : ApplyFix(name, fixAction)

SpecFix == Init /\ [][NextFix]_vars

(***************************************************************************)
(* evaluateCondition on its own: one condition and one resource per call   *)
(***************************************************************************)
\* The deployments a condition is evaluated on: no container, one container
\* with a cpu limit of each kind of quantity or with no resources, and such
\* a container beside one without resources, in both orders.
ConditionResources ==
  LET WithCpu(q) == Obj([resources |-> Obj([limits |-> Obj([cpu |-> q])])])
      One == {ContainerBare} \cup
             {WithCpu(q) : q \in {Num(2), Str(<<"5", "0", "0", "m">>),
                                  Str(<<"2", "K", "i">>), Str(<<"1", ".", "5", "K", "i">>),
                                  Str(<<"1", "M", "i">>), Str(<<"1", "G", "i">>),
                                  Str(<<"1", ".", "5">>), Str(<<"a", "b", "c">>),
                                  Str(<<"x", "m">>)}}
  IN {Deployment(1, [labels |-> Undef, containers |-> cs]) :
        cs \in {<<>>} \cup {<<c>> : c \in One}
                \cup {<<c, ContainerBare>> : c \in One}
                \cup {<<ContainerBare, c>> : c \in One}}

\* evaluateCondition(condition, resource); the method reads no state and
\* leaves none, so a behaviour holds one call.
EvaluateCondition(condition, resource) ==
  /\ last.op = "none"
  /\ last' = [op |-> "evaluateCondition", condition |-> condition, resource |-> resource]
              @@ evaluateCondition(condition, resource)
  /\ UNCHANGED <<rules, config, built, touched, ops, cluster>>

\* Conditions on the cpu limit of some container (the projection), of the
\* first container, and on the containers themselves.
NextCondition ==
  \E field \in {<<"spec", "template", "spec", "containers", "[*]", "resources", "limits", "cpu">>,
                 <<"spec", "template", "spec", "containers", "0", "resources", "limits", "cpu">>,
                 <<"spec", "template", "spec", "containers", "[*]">>},
     operator \in {"equals", "not_equals", "contains", "not_contains", "greater_than",
                    "less_than", "regex_match", "exists", "not_exists"},
     value \in {Bool(TRUE), Bool(FALSE), Str(<<"t", "r", "u", "e">>), Num(0), Num(1),
                Num(500), Str(<<"5", "0", "0", "m">>), Str(<<"1", "K", "i">>),
                Str(<<"1", "2", "0", "0">>), Str(<<"1", ".", "5">>), Str(<<"a", "b", "c">>)},
     resource \in ConditionResources :
    EvaluateCondition([field |-> field, operator |-> operator, value |-> value], resource)

SpecCondition == InitCatalog /\ [][NextCondition]_vars

(***************************************************************************)
(* autoFixViolations beside another writer.  The method awaits the read,   *)
(* changes the document it got and awaits the replace; the cluster is      *)
(* shared with other clients, which may replace the deployment in between. *)
(* last holds the call in flight: the document read and the records.       *)
(***************************************************************************)
\* await readNamespacedDeployment(deploymentName, namespace), for the
\* fixable records of an evaluation of the deployment.
AutoFixRead(e, name) ==
  /\ built[e] = "ok"
  /\ last.op # "readNamespacedDeployment"
  /\ last' = [op |-> "readNamespacedDeployment", engine |-> e, name |-> name,
              read |-> cluster[name],
              violations |-> Fixable(evaluateResource(rules[e], cluster[name], "deployment")),
              stale |-> FALSE]
  /\ UNCHANGED <<rules, config, built, touched, ops, cluster>>

\* Another client replaces a deployment while the call is in flight.
ExternalWrite(name, tpl) ==
  /\ last.op = "readNamespacedDeployment"
  /\ cluster[name] # Deployment(name, tpl)
  /\ cluster' = [cluster EXCEPT ![name] = Deployment(name, tpl)]
  /\ last' = [last EXCEPT !.stale = @ \/ name = last.name]
  /\ UNCHANGED <<rules, config, built, touched, ops>>

\* The rest of the call with the fixes applied to the deployment as it is
\* in the cluster at the time of the write.
AutoFixWriteRebased(accepted, fix) ==
  /\ last.op = "readNamespacedDeployment"
  /\ accepted \/ (last.stale /\ fix.modified)
  /\ last' = [op |-> "autoFixViolations", engine |-> last.engine, name |-> last.name,
              read |-> last.read, violations |-> last.violations, stale |-> last.stale,
              current |-> cluster[last.name], modified |-> fix.modified,
              ok |-> accepted]
  /\ cluster' = IF fix.modified /\ accepted
                THEN [cluster EXCEPT ![last.name] =
                        autoFixViolations(rules[last.engine], cluster[last.name],
                                          last.violations).doc]
                ELSE cluster
  /\ UNCHANGED <<rules, config, built, touched, ops>>

\* The rest of the call: the loop over the records on the document read,
\* whose outcome is fix, and, if (modified), the replace with that
\* document.  The code compares nothing with the cluster; the document
\* carries the metadata it was read with, and the server may accept the
\* replace or refuse it when the deployment was replaced since the read
\* (accepted).  A refused replace is raised by the catch as 'Failed to
\* auto-fix violations'.
AutoFixWrite(accepted, fix) ==
  /\ last.op = "readNamespacedDeployment"
  /\ accepted \/ (last.stale /\ fix.modified)
  /\ last' = [op |-> "autoFixViolations", engine |-> last.engine, name |-> last.name,
              read |-> last.read, violations |-> last.violations, stale |-> last.stale,
              current |-> cluster[last.name], modified |-> fix.modified,
              ok |-> accepted]
  /\ cluster' = IF fix.modified /\ accepted
                THEN [cluster EXCEPT ![last.name] = fix.doc]
                ELSE cluster
  /\ UNCHANGED <<rules, config, built, touched, ops>>

NextRace ==
  \/ Construct(Server, NoConfig)
  \/ \E name \in Names : AutoFixRead(Server, name)
  \/ \E name \in Names, tpl \in Templates : ExternalWrite(name, tpl)
  \/ \E accepted \in BOOLEAN :
       AutoFixWrite(accepted,
                    IF last.op = "readNamespacedDeployment"
                    THEN autoFixViolations(rules[last.engine], last.read, last.violations)
                    ELSE [modified |-> FALSE])

SpecRace == Init /\ [][NextRace]_vars

(***************************************************************************)
(* KubernetesService.scaleDeployment (kubernetes-service.ts).  last holds  *)
(* the call in flight: where it is (pc), the milliseconds of Date.now()    *)
(* since startWaitTime (elapsed), the number of polls made and the         *)
(* readyReplicas the last poll saw.  What a poll sees and how long its     *)
(* read takes are the cluster's to choose.                                 *)
(***************************************************************************)
MaxReplicas == 2

maxWaitTime == 300000

pollInterval == 2000

\* The timeout warning being the only one, warnings is a list of its kind.
\* The call up to the loop: read the deployment (a failed read is raised),
\* patch /spec/replicas, and return at once unless waitForReady && replicas
\* > 0.
ScaleDeployment(name, replicas, waitForReady) ==
  /\ last.op = "scaleDeployment" => last.pc # "poll"
  /\ IF name \notin Names
     THEN /\ last' = [op |-> "scaleDeployment", pc |-> "raised", name |-> name,
                      replicas |-> replicas, waitForReady |-> waitForReady]
          /\ UNCHANGED cluster
     ELSE /\ last' = [op |-> "scaleDeployment",
                      pc |-> IF waitForReady /\ replicas > 0 THEN "poll" ELSE "returned",
                      name |-> name, replicas |-> replicas, waitForReady |-> waitForReady,
                      previousReplicas |->
                        IF Truthy(OptChain(GetProp(cluster[name], "spec"), "replicas"))
                        THEN OptChain(GetProp(cluster[name], "spec"), "replicas").n ELSE 0,
                      currentReplicas |->
                        IF Truthy(OptChain(GetProp(cluster[name], "spec"), "replicas"))
                        THEN OptChain(GetProp(cluster[name], "spec"), "replicas").n ELSE 0,
                      elapsed |-> 0, polls |-> 0, warnings |-> <<>>]
          /\ cluster' = [cluster EXCEPT ![name] =
                           SetProp(@, "spec", SetProp(GetProp(@, "spec"), "replicas", Num(replicas)))]
  /\ UNCHANGED <<rules, config, built, touched, ops>>

\* A loop without the test of the time: while (true).
PollForever(readyReplicas, latency) ==
  /\ last.op = "scaleDeployment" /\ last.pc = "poll"
  /\ last' = IF readyReplicas >= last.replicas
             THEN [last EXCEPT !.pc = "returned", !.polls = @ + 1,
                               !.currentReplicas = readyReplicas,
                               !.elapsed = IF @ < maxWaitTime THEN @ + latency ELSE @]
             ELSE [last EXCEPT !.polls = IF last.elapsed < maxWaitTime THEN @ + 1 ELSE @,
                               !.currentReplicas = readyReplicas,
                               !.elapsed = IF @ < maxWaitTime THEN @ + latency + pollInterval
                                           ELSE @]
  /\ UNCHANGED <<rules, config, built, touched, ops, cluster>>

\* One test of the loop condition and what follows it.  While Date.now() -
\* startWaitTime < maxWaitTime: read the deployment, which takes latency ms
\* and shows readyReplicas; break when that is enough, else sleep
\* pollInterval.  Else the loop ends.  After the loop the warning is pushed
\* when currentReplicas < replicas, and the call returns.
Poll(readyReplicas, latency) ==
  /\ last.op = "scaleDeployment" /\ last.pc = "poll"
  /\ last' = IF last.elapsed >= maxWaitTime
             THEN [last EXCEPT !.pc = "returned",
                               !.warnings = IF last.currentReplicas < last.replicas
                                            THEN <<"timeout">> ELSE <<>>]
             ELSE IF readyReplicas >= last.replicas
             THEN [last EXCEPT !.pc = "returned", !.polls = @ + 1,
                               !.currentReplicas = readyReplicas,
                               !.elapsed = @ + latency]
             ELSE [last EXCEPT !.polls = @ + 1,
                               !.currentReplicas = readyReplicas,
                               !.elapsed = @ + latency + pollInterval]
  /\ UNCHANGED <<rules, config, built, touched, ops, cluster>>

\* The calls scale the first deployment, or one the cluster does not hold.
NextScale ==
  \/ \E name \in {1, Missing}, replicas \in 0..MaxReplicas, waitForReady \in BOOLEAN :
       ScaleDeployment(name, replicas, waitForReady)
  \/ \E readyReplicas \in 0..MaxReplicas, latency \in {0, 149000} :
       Poll(readyReplicas, latency)

\* The awaited read and the timer of a call in flight complete.
SpecScale ==
  /\ InitCatalog
  /\ [][NextScale]_vars
  /\ WF_vars(\E readyReplicas \in 0..MaxReplicas, latency \in {0, 149000} :
               Poll(readyReplicas, latency))

(***************************************************************************)
(* KubernetesService.rollbackDeployment (kubernetes-service.ts): the        *)
(* deployment is read from the cluster, the replica sets are what the list  *)
(* call returns; a replica set is modelled by the fields the method reads:  *)
(* the name of its owner reference, its revision annotation (Undef when it  *)
(* has none) and its pod template                                           *)
(***************************************************************************)
\* The highest revision a deployment or a replica set of the model carries.
MaxRevision == 2

\* The values of the annotation deployment.kubernetes.io/revision.
Revisions == {Undef} \cup {Str(NatToChars(n)) : n \in 1..MaxRevision}

\* parseInt(annotation || fallback)
RevisionOf(annotation, fallback) ==
  ParseInt(IF Truthy(annotation) THEN annotation.s ELSE fallback).num

\* The lists listNamespacedReplicaSet may return for the deployment `name`:
\* at most two replica sets, owned by the deployment or by another one; the
\* pod template of an annotated replica set differs from the others.
ReplicaSetLists(name) ==
  LET items == {[owner |-> o, revision |-> r,
                 template |-> Obj([spec |-> Obj([containers |->
                    Arr(<<IF IsUndef(r) THEN ContainerRoot ELSE ContainerFull>>)])])] :
                  o \in {name}, r \in Revisions}
               \cup {[owner |-> Missing, revision |-> Str(<<"1">>),
                      template |-> Obj([spec |-> Obj([containers |->
                                                        Arr(<<ContainerRoot>>)])])]}
  IN {<<>>} \cup {<<a>> : a \in items} \cup {<<a, b>> : a, b \in items}

RECURSIVE SortByRevision(_)
\* items.sort((a, b) => revB - revA): descending by revision, replica sets
\* of one revision in the order of the list (the sort is stable).
SortByRevision(items) ==
  IF items = <<>> THEN <<>>
  ELSE LET rest == SortByRevision(Tail(items))
           k == Cardinality({i \in 1..Len(rest) :
                   RevisionOf(rest[i].revision, <<"0">>)
                     > RevisionOf(Head(items).revision, <<"0">>)})
       IN SubSeq(rest, 1, k) \o <<Head(items)>> \o SubSeq(rest, k + 1, Len(rest))

\* Array.prototype.find over the positions of a list: the first position in
\* the set, 0 for undefined.
FindFirst(positions) ==
  IF positions = {} THEN 0 ELSE CHOOSE i \in positions : \A j \in positions : i <= j

\* targetRevision: the revision asked for or, without one (undefined or 0),
\* the revision of the first replica set below the current revision, 1
\* when there is none or when it carries no annotation.
TargetRevision(currentRevision, revision, replicaSets) ==
  IF Truthy(revision) THEN revision.n
  ELSE IF FindFirst({i \in 1..Len(replicaSets) :
                       RevisionOf(replicaSets[i].revision, <<"0">>) < currentRevision}) = 0
  THEN 1
  ELSE RevisionOf(replicaSets[FindFirst({i \in 1..Len(replicaSets) :
                    RevisionOf(replicaSets[i].revision, <<"0">>) < currentRevision})].revision,
                  <<"1">>)

\* A rollback that goes on without a target replica set and replaces the
\* deployment with itself.
RollbackToUnchecked(deployment, currentRevision, targetRevision, replicaSets, targetRS) ==
  [ok |-> TRUE, fromRevision |-> currentRevision, toRevision |-> targetRevision,
   updatedDeployment |->
     IF targetRS # 0
        /\ Truthy(getNestedValue(deployment, <<"spec", "template">>))
        /\ Truthy(replicaSets[targetRS].template)
     THEN SetProp(deployment, "spec",
                  SetProp(GetProp(deployment, "spec"), "template",
                          replicaSets[targetRS].template))
     ELSE deployment]

\* The rest of the method once targetRevision is known and targetRS is the
\* position of the first replica set of that revision (0: there is none,
\* and 'Revision <targetRevision> not found' is raised): the deployment
\* with the template of the replica set and the RollbackResult.
RollbackTo(deployment, currentRevision, targetRevision, replicaSets, targetRS) ==
  IF targetRS = 0 THEN [ok |-> FALSE, notFound |-> targetRevision]
  ELSE [ok |-> TRUE, fromRevision |-> currentRevision, toRevision |-> targetRevision,
        updatedDeployment |->
          IF Truthy(getNestedValue(deployment, <<"spec", "template">>))
             /\ Truthy(replicaSets[targetRS].template)
          THEN SetProp(deployment, "spec",
                       SetProp(GetProp(deployment, "spec"), "template",
                               replicaSets[targetRS].template))
          ELSE deployment]

\* rollbackDeployment(namespace, deploymentName, revision, waitForRollback)
\* on the deployment read and the replica sets listed.
rollbackFrom(deployment, currentRevision, revision, replicaSets) ==
  RollbackTo(deployment, currentRevision,
             TargetRevision(currentRevision, revision, replicaSets),
             replicaSets,
             FindFirst({i \in 1..Len(replicaSets) :
                          RevisionOf(replicaSets[i].revision, <<"0">>)
                            = TargetRevision(currentRevision, revision, replicaSets)}))

rollbackDeployment(deployment, name, revision, items) ==
  rollbackFrom(deployment,
               RevisionOf(getNestedValue(deployment,
                            <<"metadata", "annotations", "deployment.kubernetes.io/revision">>),
                          <<"1">>),
               revision,
               SortByRevision(SelectSeq(items, LAMBDA rs : rs.owner = name)))

\* The tool rollback_deployment on the deployment `name`, where result is
\* what rollbackDeployment comes to: the RollbackResult, the deployment
\* having been replaced before the method returns, or the error 'Failed to
\* rollback deployment' (ok = FALSE) and no write.  One call a behaviour:
\* the method keeps nothing between calls, and InitRollback ranges over the
\* deployments a call can find.
RollbackDeployment(name, revision, items, result) ==
  /\ last.op = "none"
  /\ last' = [op |-> "rollbackDeployment", name |-> name, revision |-> revision,
              replicaSets |-> items,
              before |-> IF name \in Names THEN cluster[name] ELSE Undef] @@ result
  /\ cluster' = IF result.ok
                THEN [cluster EXCEPT ![name] = result.updatedDeployment]
                ELSE cluster
  /\ UNCHANGED <<rules, config, built, touched, ops>>

\* Deployments at some revision: the annotation is set by the deployment
\* controller, and a deployment may carry none.
InitRollback ==
  /\ Unbuilt
  /\ \E rev \in [Names -> Revisions] :
       cluster = [i \in Names |->
         LET d == Deployment(i, [labels |-> Undef, containers |-> <<ContainerBare>>])
         IN IF IsUndef(rev[i]) THEN d
            ELSE SetProp(d, "metadata",
                   SetProp(GetProp(d, "metadata"), "annotations",
                           Obj([k \in {"deployment.kubernetes.io/revision"} |-> rev[i]])))]

\* A call on a deployment of the cluster, or on a name whose read fails.
NextRollback ==
  \/ \E name \in Names, revision \in {Undef} \cup {Num(n) : n \in 0..MaxRevision} :
       \E items \in ReplicaSetLists(name) :
         RollbackDeployment(name, revision, items,
                            rollbackDeployment(cluster[name], name, revision, items))
  \/ RollbackDeployment(Missing, Undef, <<>>, [ok |-> FALSE])

SpecRollback == InitRollback /\ [][NextRollback]_vars

(***************************************************************************)
(* KubernetesService.toggleFeatureFlag (kubernetes-service.ts).  The       *)
(* config maps of the configmap branch are not part of the cluster kept    *)
(* here: that branch succeeds or fails and leaves every deployment alone.  *)
(***************************************************************************)
FlagNames == {<<"F">>, <<"G">>}

\* deployment.body.spec?.template?.spec?.containers || []
ContainersOf(deployment) ==
  LET containers == getNestedValue(deployment, <<"spec", "template", "spec", "containers">>)
  IN IF Truthy(containers) THEN containers.a ELSE <<>>

\* The env of a container, [] for a container without one.
EnvOf(container) ==
  IF Truthy(GetProp(container, "env")) THEN GetProp(container, "env").a ELSE <<>>

\* container.env.findIndex(env => env.name === flagName): the first
\* position, 0 for -1.
findIndex(env, flagName) ==
  LET found == {i \in 1..Len(env) : StrictEq(GetProp(env[i], "name"), Str(flagName))}
  IN IF found = {} THEN 0 ELSE CHOOSE i \in found : \A j \in found : i <= j

\* The deployment with its first container given the env list.
WithEnv(deployment, env) ==
  LET spec == GetProp(deployment, "spec")
      template == GetProp(spec, "template")
      podSpec == GetProp(template, "spec")
      containers == ContainersOf(deployment)
  IN SetProp(deployment, "spec",
       SetProp(spec, "template",
         SetProp(template, "spec",
           SetProp(podSpec, "containers",
             Arr([containers EXCEPT ![1] = SetProp(containers[1], "env", Arr(env))])))))

\* A toggle that pushes the entry whether or not one of that name exists.
toggleFeatureFlagPushing(deployment, flagName, enabled) ==
  IF Len(ContainersOf(deployment)) = 0 THEN [ok |-> FALSE]
  ELSE [ok |-> TRUE,
        body |-> WithEnv(deployment,
                   Append(EnvOf(ContainersOf(deployment)[1]),
                          Obj([name |-> Str(flagName),
                               value |-> Str(ToStr(Bool(enabled)))])))]

\* The env_var branch of toggleFeatureFlag on the deployment that was read:
\* the error 'No containers found in deployment' (ok = FALSE), or the body
\* handed to replaceNamespacedDeployment.
toggleFeatureFlag(deployment, flagName, enabled) ==
  LET containers == ContainersOf(deployment)
      env == EnvOf(containers[1])
      existingEnvIndex == findIndex(env, flagName)
  IN IF Len(containers) = 0 THEN [ok |-> FALSE]
     ELSE [ok |-> TRUE,
           body |-> WithEnv(deployment,
                      IF existingEnvIndex > 0
                      THEN [env EXCEPT ![existingEnvIndex] =
                              SetProp(env[existingEnvIndex], "value",
                                      Str(ToStr(Bool(enabled))))]
                      ELSE Append(env, Obj([name |-> Str(flagName),
                                            value |-> Str(ToStr(Bool(enabled)))])))]

\* The tool toggle_feature_flag on the deployment `name`.  accepted: the
\* cluster takes the replace of the deployment (env_var) or has the config
\* map and takes its replace (configmap); a failure is raised as 'Failed to
\* toggle feature flag'.  replaced: replaceNamespacedDeployment was called.
ToggleFeatureFlag(name, flagName, enabled, flagType, accepted) ==
  LET read == flagType = "env_var" /\ name \in Names
      result == IF read THEN toggleFeatureFlag(cluster[name], flagName, enabled)
                ELSE [ok |-> flagType = "configmap"]
      written == read /\ result.ok /\ accepted
  IN /\ last' = [op |-> "toggleFeatureFlag", name |-> name, flagName |-> flagName,
                 enabled |-> enabled, flagType |-> flagType,
                 before |-> IF name \in Names THEN cluster[name] ELSE Undef,
                 replaced |-> read /\ result.ok,
                 ok |-> result.ok /\ accepted,
                 rolloutTriggered |-> written]
     /\ cluster' = IF written THEN [cluster EXCEPT ![name] = result.body] ELSE cluster
     /\ UNCHANGED <<rules, config, built, touched, ops>>

\* The first deployment with no template, no container, one container or
\* two, the first container having no env or up to two entries: flags set
\* to either value, twice the same name, and an entry without a value.
InitToggle ==
  LET EnvVars == {Obj([name |-> Str(n), value |-> Str(ToStr(Bool(b)))]) :
                    n \in FlagNames, b \in BOOLEAN}
                 \cup {Obj([name |-> Str(<<"F">>), valueFrom |-> Obj(<<>>)])}
      First == {ContainerBare}
               \cup {SetProp(ContainerBare, "env", Arr(env)) :
                       env \in {<<>>} \cup {<<a>> : a \in EnvVars}
                                \cup {<<a, b>> : a, b \in EnvVars}}
      Second == SetProp(ContainerBare, "env", Arr(<<CHOOSE a \in EnvVars : TRUE>>))
  IN /\ Unbuilt
     /\ \E d \in {SetProp(Deployment(1, [labels |-> Undef, containers |-> <<>>]),
                          "spec", Obj(<<>>))}
                 \cup {Deployment(1, [labels |-> Undef, containers |-> cs]) :
                         cs \in {<<>>} \cup {<<c>> : c \in First}
                                 \cup {<<c, Second>> : c \in First}} :
          cluster = [i \in Names |->
                       IF i = 1 THEN d
                       ELSE Deployment(i, [labels |-> Undef,
                                           containers |-> <<ContainerBare>>])]

\* A call on the first deployment, or on a name whose read fails.
NextToggle ==
  \E name \in {1, Missing}, flagName \in FlagNames, enabled \in BOOLEAN,
     flagType \in {"env_var", "configmap"}, accepted \in BOOLEAN :
    ToggleFeatureFlag(name, flagName, enabled, flagType, accepted)

SpecToggle == InitToggle /\ [][NextToggle]_vars

(***************************************************************************)
(* Properties                                                              *)
(***************************************************************************)
\* The cpu quantities the scenarios name.
Cpu2500m == Str(<<"2", "5", "0", "0", "m">>)

Cpu500m == Str(<<"5", "0", "0", "m">>)

\* Both buckets of a result, violations first.
AllRecords(result) == result.violations \o result.warnings

\* The records of the rule ruleId in a list of records, in order.
RecordsOf(records, ruleId) ==
  SelectFrom(records, {v \in {records[i] : i \in 1..Len(records)} : v.ruleId = ruleId}, 1)

\* The last call evaluated one deployment that was read.
Evaluated == last.op = "evaluateDeployment" /\ last.ok

\* The last call returned a compliance report.
Reported == last.op = "generateComplianceReport" /\ last.ok

PassedIsNoViolation(result) == result.passed <=> (result.violations = <<>>)

\* C1: whatever the deployment and whatever configuration built the rule
\* map, a result has passed = TRUE exactly when its violations list is
\* empty, whether or not it holds warnings; so for the result of
\* evaluateDeployment and for the aggregated result of a report.
C1_PassedIffNoViolations ==
  /\ Evaluated => PassedIsNoViolation(last.result)
  /\ Reported => PassedIsNoViolation(last.report.results)

\* An evaluation that passed although it holds warnings.
C1_PassedWithWarnings ==
  Evaluated /\ last.result.passed /\ last.result.warnings # <<>>

\* The records of `rule` in the result are the failed conditions of the
\* rule, all in violations when the rule has a deny action, else all in
\* warnings.
BucketedByRule(result, rule, resource) ==
  /\ RecordsOf(result.violations, rule.id) =
       (IF HasDeny(rule) THEN evaluateRule(rule, resource) ELSE <<>>)
  /\ RecordsOf(result.warnings, rule.id) =
       (IF HasDeny(rule) THEN <<>> ELSE evaluateRule(rule, resource))

\* C2: for every rule the evaluation considered, every failed condition of
\* the rule is a record of violations and none is in warnings when the rule
\* has at least one deny action, and every one is a record of warnings and
\* none is in violations when it has none.
C2_BucketPerRule ==
  Evaluated =>
    \A i \in 1..Len(getEffective(rules[last.engine], "deployment")) :
      BucketedByRule(last.result,
                     getEffective(rules[last.engine], "deployment")[i],
                     cluster[last.name])

\* A rule whose first action is warn and whose second is deny failed two
\* conditions, and a rule without deny failed one, in the same evaluation.
C2_DenyAfterWarn ==
  /\ Evaluated
  /\ Len(RecordsOf(last.result.violations, "acme-001")) = 2
  /\ RecordsOf(last.result.warnings, "acme-001") = <<>>
  /\ RecordsOf(last.result.warnings, "ops-002") # <<>>

\* The ids of the rules getEffective returns for the resource type.
EffectiveIds(rs, resourceType) == RuleIds(getEffective(rs, resourceType))

\* The ids the ruleOverrides of cfg give enabled: false.
OverriddenOff(cfg) ==
  {cfg.ruleOverrides[i].ruleId : i \in {j \in 1..Len(cfg.ruleOverrides) :
                                     cfg.ruleOverrides[j].enabled = Bool(FALSE)}}

\* The ids of the customRules of cfg.
CustomIds(cfg) == {cfg.customRules[i].id : i \in 1..Len(cfg.customRules)}

\* The engine the last call built.
Constructed == last.op = "construct" /\ ~last.threw

\* C3 as stated: right after construction no rule that an override gives
\* enabled: false is returned by getEffective, for any resource type, even
\* when customRules holds a rule of the same id.
C3_OverrideOffAbsent_Stated ==
  Constructed =>
    \A t \in ResourceTypes :
      OverriddenOff(config[last.engine]) \cap EffectiveIds(rules[last.engine], t) = {}

\* C3, amended: right after construction no rule that an override gives
\* enabled: false and that customRules does not register again is returned
\* by getEffective, for any resource type and whatever the categories say.
C3_OverrideOffAbsent ==
  Constructed =>
    \A t \in ResourceTypes :
      (OverriddenOff(config[last.engine]) \ CustomIds(config[last.engine]))
        \cap EffectiveIds(rules[last.engine], t) = {}

\* An engine built from overrides that switch off a rule its map holds,
\* with the category of the rule enabled.
C3_OverrideApplied ==
  /\ Constructed
  /\ config[last.engine] = ConfigOverrides
  /\ "sec-001" \in RuleIds(rules[last.engine])
  /\ "sec-001" \notin EffectiveIds(rules[last.engine], "deployment")
  /\ "sec-002" \in EffectiveIds(rules[last.engine], "deployment")

\* The configuration has a categories entry for cost that is not enabled.
CostDisabled(cfg) ==
  cfg.loaded /\ \E i \in 1..Len(cfg.categories) :
                  cfg.categories[i].category = "cost" /\ ~cfg.categories[i].enabled

\* The ids of the default rules of category cost.
DefaultCostIds ==
  {defaultPolicies[i].id : i \in {j \in 1..Len(defaultPolicies) :
                                   defaultPolicies[j].category = "cost"}}

\* The default cost rules getEffective returns on engine e.
EffectiveDefaultCost(e) ==
  UNION {EffectiveIds(rules[e], t) : t \in ResourceTypes} \cap DefaultCostIds

\* C4 as stated: on every engine built from a configuration that disables
\* category cost, getEffective returns no default cost rule, after any
\* later addRule, removeRule, toggleRule and evaluation.
C4_CostOffForever_Stated ==
  \A e \in Engines :
    built[e] = "ok" /\ CostDisabled(config[e]) => EffectiveDefaultCost(e) = {}

\* C4, amended: on every engine built from a configuration that disables
\* category cost, getEffective returns no default cost rule other than one
\* that addRule or toggleRule(id, true) was called with after the
\* construction; removeRule, toggleRule(id, false) and evaluations keep the
\* rules of the category out.
C4_CostOffUntilTouched ==
  \A e \in Engines :
    built[e] = "ok" /\ CostDisabled(config[e]) => EffectiveDefaultCost(e) \subseteq touched[e]

\* Both engines were built from the configuration that disables cost, the
\* second had a default cost rule switched on again, and then an evaluation
\* ran on the first, which holds the rule and does not return it.
C4_TwoEnginesCostOff ==
  /\ \A e \in Engines : built[e] = "ok" /\ config[e] = ConfigNoCost
  /\ \E e \in Engines \ {Server} : EffectiveDefaultCost(e) # {}
  /\ EffectiveDefaultCost(Server) = {}
  /\ "res-002" \in RuleIds(rules[Server])
  /\ Evaluated
  /\ ops > 0

\* The deployments a report of the scope covers, in the order listed.
ListedDeployments(scope) == [k \in 1..Len(Listed(scope)) |-> cluster[Listed(scope)[k]]]

\* The evaluation of each deployment of the scope on engine e.
PerResource(e, scope) ==
  [k \in 1..Len(Listed(scope)) |->
     evaluateResource(rules[e], ListedDeployments(scope)[k], "deployment")]

\* The sum over the per-resource tallies of the key k (0 where absent).
TallySum(per, tally, k) ==
  SumOver([i \in 1..Len(per) |->
             IF k \in DOMAIN per[i].summary[tally] THEN per[i].summary[tally][k] ELSE 0],
          1, Len(per))

\* The aggregated result is the sum and the concatenation of `per`.
Additive(results, per) ==
  /\ results.summary.totalRules =
       SumOver([i \in 1..Len(per) |-> per[i].summary.totalRules], 1, Len(per))
  /\ results.summary.passedRules =
       SumOver([i \in 1..Len(per) |-> per[i].summary.passedRules], 1, Len(per))
  /\ results.summary.failedRules =
       SumOver([i \in 1..Len(per) |-> per[i].summary.failedRules], 1, Len(per))
  /\ \A tally \in {"violationsBySeverity", "violationsByCategory"} :
       /\ DOMAIN results.summary[tally] =
            UNION {DOMAIN per[i].summary[tally] : i \in 1..Len(per)}
       /\ \A k \in DOMAIN results.summary[tally] :
            results.summary[tally][k] = TallySum(per, tally, k)
  /\ results.violations = FlatMap([i \in 1..Len(per) |-> per[i].violations], 1)
  /\ results.warnings = FlatMap([i \in 1..Len(per) |-> per[i].warnings], 1)

\* C5: the summary of a report is the sum of the summaries of the
\* evaluations of the deployments of its scope (totalRules, passedRules,
\* failedRules, the severity and the category tallies), and its violations
\* and warnings are the per-deployment lists one after another.
C5_ReportAdditive ==
  Reported => Additive(last.report.results, PerResource(last.engine, last.scope))

\* A report over two deployments that fail the same rule, each with
\* violations and warnings.
C5_TwoFailingResources ==
  /\ Reported
  /\ Len(PerResource(last.engine, last.scope)) >= 2
  /\ \A k \in 1..Len(PerResource(last.engine, last.scope)) :
       /\ RecordsOf(PerResource(last.engine, last.scope)[k].violations, "comp-001") # <<>>
       /\ PerResource(last.engine, last.scope)[k].warnings # <<>>

\* The last call applied one fix routine to a deployment.
FixApplied == last.op = "applyAutoFix"

\* The fields a routine injects a default for, as paths in a container.
InjectedFields(fixAction) ==
  CASE fixAction = "add_default_security_context" -> {<<"securityContext">>}
    [] fixAction = "add_default_resource_limits" ->
         {<<"resources", "limits">>, <<"resources", "requests">>}
    [] fixAction = "add_default_health_checks" ->
         {<<"livenessProbe">>, <<"readinessProbe">>}
    [] OTHER -> {}

\* Every field the routine injects a default for and that the container had
\* before is the same after.
PresentKept(fixAction, before, after) ==
  \A path \in InjectedFields(fixAction) :
    ~IsNullish(getNestedValue(before, path)) =>
      getNestedValue(after, path) = getNestedValue(before, path)

\* C6: applying a fix routine to a deployment it was just applied to
\* changes nothing and reports no change, and a routine that injects a
\* default (security context, limits and requests, probes) leaves every
\* such field that a container already had as it was.
C6_FixIdempotent ==
  FixApplied =>
    /\ applyAutoFix(cluster[last.name], last.fixAction).doc = cluster[last.name]
    /\ ~applyAutoFix(cluster[last.name], last.fixAction).modified
    /\ Len(Containers(cluster[last.name])) = Len(Containers(last.before))
    /\ \A i \in 1..Len(Containers(last.before)) :
         PresentKept(last.fixAction, Containers(last.before)[i],
                     Containers(cluster[last.name])[i])

\* The limits routine changed a deployment whose container had limits of
\* its own and no requests.
C6_InjectedBesidePresent ==
  /\ FixApplied
  /\ last.fixAction = "add_default_resource_limits"
  /\ last.wasFixed
  /\ \E i \in 1..Len(Containers(last.before)) :
       /\ getNestedValue(Containers(last.before)[i], <<"resources", "limits", "cpu">>)
            = Cpu2500m
       /\ IsUndef(getNestedValue(Containers(last.before)[i], <<"resources", "requests">>))
       /\ ~IsUndef(getNestedValue(Containers(cluster[last.name])[i],
                                  <<"resources", "requests">>))

\* The default rules the scenarios name.
Sec001 == defaultPolicies[1]

Res001 == defaultPolicies[4]

Res002 == defaultPolicies[5]

\* The rule is in the map of the engine as it was written.
BuiltInOn(e, rule) == MapHas(rules[e], rule.id) /\ MapGet(rules[e], rule.id) = rule

\* The deployment has one container and it has no securityContext.
OneContainerNoContext(deployment) ==
  /\ Len(Containers(deployment)) = 1
  /\ IsUndef(GetProp(Containers(deployment)[1], "securityContext"))

\* C7 as stated (Scenario A): the evaluation of a deployment with one
\* container that lacks securityContext, on an engine that holds the
\* built-in rule sec-001, returns exactly one record of the rule, with
\* canAutoFix = TRUE, and the rule yields no record on the deployment after
\* the fix of the rule was applied.
C7_ScenarioA_Stated ==
  (Evaluated /\ BuiltInOn(last.engine, Sec001) /\ OneContainerNoContext(cluster[last.name]))
    => /\ Len(RecordsOf(AllRecords(last.result), "sec-001")) = 1
       /\ RecordsOf(AllRecords(last.result), "sec-001")[1].canAutoFix
       /\ evaluateRule(Sec001,
                       applyAutoFix(cluster[last.name], FixActionOf(Sec001)).doc) = <<>>

\* The literals of Scenario D.
ScenarioLimits ==
  Obj([cpu |-> Str(<<"5", "0", "0", "m">>), memory |-> Str(<<"5", "1", "2", "M", "i">>)])

ScenarioRequests ==
  Obj([cpu |-> Str(<<"1", "0", "0", "m">>), memory |-> Str(<<"1", "2", "8", "M", "i">>)])

\* The container has neither resources.limits nor resources.requests.
NoLimitsNoRequests(container) ==
  /\ IsUndef(getNestedValue(container, <<"resources", "limits">>))
  /\ IsUndef(getNestedValue(container, <<"resources", "requests">>))

\* C8 (Scenario D): after the resource-limits routine ran on a deployment,
\* every container that had neither resources.limits nor resources.requests
\* has limits = {cpu: "500m", memory: "512Mi"} and requests = {cpu: "100m",
\* memory: "128Mi"}, and the rule res-001, whose fix the routine is, yields
\* no record on the deployment.
C8_ScenarioD ==
  (FixApplied /\ last.fixAction = "add_default_resource_limits") =>
    /\ \A i \in 1..Len(Containers(last.before)) :
         NoLimitsNoRequests(Containers(last.before)[i]) =>
           /\ getNestedValue(Containers(cluster[last.name])[i], <<"resources", "limits">>)
                = ScenarioLimits
           /\ getNestedValue(Containers(cluster[last.name])[i], <<"resources", "requests">>)
                = ScenarioRequests
    /\ evaluateRule(Res001, cluster[last.name]) = <<>>

\* The routine ran on a deployment whose only container had no resources
\* at all, and reported a change.
C8_BareContainerFixed ==
  /\ FixApplied
  /\ last.fixAction = "add_default_resource_limits"
  /\ last.wasFixed
  /\ Len(Containers(last.before)) = 1
  /\ IsUndef(GetProp(Containers(last.before)[1], "resources"))
  /\ getNestedValue(Containers(cluster[last.name])[1], <<"resources", "limits", "cpu">>)
       = Cpu500m

\* The rules whose condition is less_than "2000m" on the cpu limit of a
\* container: res-002 through containers[*], dev-001 through containers.0.
CpuLimitRules == {Res002, CustomDev}

\* C9 as stated (Scenario B): the evaluation of a deployment whose
\* container has limits.cpu = "2500m" returns a record for every rule it
\* considered whose condition is less_than "2000m" on the cpu limit,
\* whether the path of the condition goes through containers[*] or not.
C9_ScenarioB_Stated ==
  (Evaluated /\ Len(Containers(cluster[last.name])) = 1
     /\ getNestedValue(Containers(cluster[last.name])[1], <<"resources", "limits", "cpu">>)
          = Cpu2500m)
    => \A rule \in CpuLimitRules :
         BuiltInOn(last.engine, rule) =>
           RecordsOf(AllRecords(last.result), rule.id) # <<>>

\* C10: the overallCompliance of a report (in hundredths of a percent) is
\* 100.00 when totalRules = 0, is within half a hundredth of
\* passedRules / totalRules * 100 when totalRules > 0, and is between 0 and
\* 100.00 in every case.
C10_OverallCompliance ==
  Reported =>
    /\ last.report.results.summary.totalRules = 0 =>
         last.report.overallCompliance = 100 * 100
    /\ last.report.results.summary.totalRules > 0 =>
         /\ 2 * (last.report.overallCompliance * last.report.results.summary.totalRules
                 - last.report.results.summary.passedRules * 100 * 100)
              <= last.report.results.summary.totalRules
         /\ 2 * (last.report.results.summary.passedRules * 100 * 100
                 - last.report.overallCompliance * last.report.results.summary.totalRules)
              <= last.report.results.summary.totalRules
    /\ last.report.overallCompliance \in 0..(100 * 100)

\* A report whose percentage is not a whole number of hundredths and was
\* rounded up.
C10_RoundedUp ==
  /\ Reported
  /\ last.report.results.summary.totalRules > 0
  /\ last.report.overallCompliance * last.report.results.summary.totalRules
       > last.report.results.summary.passedRules * 100 * 100

\* The default rules, each registered under its id in the rule map rs.
DefaultsRegistered(rs) ==
  \A i \in 1..Len(defaultPolicies) : MapHas(rs, defaultPolicies[i].id)

\* C11 as stated: a configuration problem never aborts the construction of
\* an engine: also when the configuration document has no organization, new
\* PolicyEngine returns and every built-in default rule is registered.
C11_ConstructionNeverAborts_Stated ==
  (last.op = "construct" /\ config[last.engine].loaded
     /\ ~config[last.engine].organization)
    => /\ ~last.threw
       /\ built[last.engine] = "ok"
       /\ DefaultsRegistered(rules[last.engine])

\* The last call of the tool went on to autoFixViolations, which returned.
AutoFixed == last.op = "auto_fix_policy_violations" /\ last.outcome = "applied"

\* The fix action autoFixViolations runs for the record v, "" when it skips
\* the record.
RoutineFor(v) ==
  IF v.canAutoFix /\ MapHas(rules[last.engine], v.ruleId)
  THEN FixActionOf(MapGet(rules[last.engine], v.ruleId)) ELSE ""

\* C12: one call of autoFixViolations replaces the deployment at most once,
\* after the loop over the violations, and it does so exactly when a fix
\* routine changed the document: the cluster then holds the document with
\* all the fixes, and a call whose routines change nothing writes nothing
\* and leaves the deployment as it was.
C12_OneWriteIffChanged ==
  AutoFixed =>
    /\ last.writes \in {0, 1}
    /\ last.writes = 1 <=> last.after # last.before
    /\ last.writes = 1 <=> last.fixed > 0
    /\ cluster[last.name] = last.after

\* A call in which two routines changed the deployment and one write
\* carried both changes.
C12_TwoFixesOneWrite ==
  /\ AutoFixed
  /\ last.fixed >= 2
  /\ last.writes = 1
  /\ cluster[last.name] # last.before

\* C13 as stated: autoFixViolations accounts for every record it is given:
\* fixed + failed is the number of records passed in, and errors holds a
\* message whenever failed > 0.
C13_EveryViolationCounted_Stated ==
  AutoFixed =>
    /\ last.fixed + last.failed = Len(Fixable(last.evaluation))
    /\ last.failed > 0 => last.errors # <<>>

\* C14: a routine that fails does not end the batch: after a call of
\* autoFixViolations that returned, the deployment in the cluster is the
\* document after the loop, and no routine the loop ran for a record of the
\* list would still change it, also when a routine earlier in the list
\* failed.
C14_BatchSurvivesFailure ==
  AutoFixed =>
    /\ cluster[last.name] = last.after
    /\ \A i \in 1..Len(Fixable(last.evaluation)) :
         RoutineFor(Fixable(last.evaluation)[i]) # "" =>
           ~applyAutoFix(cluster[last.name],
                         RoutineFor(Fixable(last.evaluation)[i])).modified

\* A call whose first record ran a routine that failed (it changed nothing)
\* and in which a later routine changed the deployment, which was written.
C14_FixedAfterFailure ==
  /\ AutoFixed
  /\ RoutineFor(Fixable(last.evaluation)[1]) # ""
  /\ ~applyAutoFix(last.before, RoutineFor(Fixable(last.evaluation)[1])).modified
  /\ last.failed > 0
  /\ last.fixed > 0
  /\ last.writes = 1

\* The last call of the tool read and evaluated the deployment.
ToolEvaluated == last.op = "auto_fix_policy_violations" /\ last.outcome # "error"

\* C19: a call of the tool with dryRun = true, or one whose evaluation has
\* no record with canAutoFix = true, does not go on to autoFixViolations and
\* leaves the deployment in the cluster as it was.
C19_DryRunOnlyPreviews ==
  (ToolEvaluated /\ (last.dryRun \/ Fixable(last.evaluation) = <<>>))
    => /\ last.outcome \in {"nothing", "preview"}
       /\ cluster[last.name] = last.before

\* A dry run on a deployment that a run with dryRun = false would change.
C19_PreviewOfRealFix ==
  /\ ToolEvaluated
  /\ last.dryRun
  /\ last.outcome = "preview"
  /\ autoFixViolations(rules[last.engine], cluster[last.name],
                       Fixable(last.evaluation)).modified

\* C18 as stated: the engine of the server is built with the path that
\* POLICY_CONFIG_PATH names when the variable is set; when it is not set,
\* with the production file for NODE_ENV = production, the development
\* file for NODE_ENV = development and no file for any other NODE_ENV.
C18_PathSelection_Stated ==
  last.op = "main" =>
    /\ last.POLICY_CONFIG_PATH # "" =>
         /\ last.policyConfigPath = last.POLICY_CONFIG_PATH
         /\ config[Server] = FileAt(last.POLICY_CONFIG_PATH)
    /\ last.POLICY_CONFIG_PATH = "" =>
         last.policyConfigPath =
           CASE last.NODE_ENV = "production" -> "./config/policies/production.json"
             [] last.NODE_ENV = "development" -> "./config/policies/development.json"
             [] OTHER -> ""

\* C15 as stated: an access error during the scan of a namespace or of the
\* fleet does not end the scan: generateComplianceReport still returns a
\* report, and the report adds up the results of the deployments of the
\* scope that could be evaluated.
C15_ScanSurvivesAccessError_Stated ==
  last.op = "generateComplianceReport" =>
    /\ last.ok
    /\ Additive(last.report.results, PerResource(last.engine, last.scope))

\* C16: after construction and after any sequence of addRule, removeRule
\* and toggleRule, the rule map of every engine holds at most one rule per
\* id, and addRule(rule) leaves the map holding exactly that rule under its
\* id: with an id already present the number of rules is what it was, with
\* a new id it is one more.
C16_OneRulePerId ==
  /\ \A e \in Engines : Cardinality(RuleIds(rules[e])) = Len(rules[e])
  /\ last.op = "addRule" =>
       /\ MapGet(rules[last.engine], last.id) = last.rule
       /\ Len(rules[last.engine]) = IF last.had THEN last.size ELSE last.size + 1

\* addRule of the built-in res-002 on an engine whose configuration had
\* switched the rule off: the rule registered last is the one in the map.
C16_AddReplaced ==
  /\ last.op = "addRule"
  /\ last.had
  /\ last.id = "res-002"
  /\ config[last.engine] = ConfigNoCost
  /\ MapGet(rules[last.engine], "res-002").enabled

\* The calls that build or change the rule map of one engine.
CatalogOps == {"construct", "addRule", "removeRule", "toggleRule"}

LowerRevisions(r) ==
  {RevisionOf(last.replicaSets[i].revision, <<"0">>) :
     i \in {j \in 1..Len(last.replicaSets) :
              /\ last.replicaSets[j].owner = last.name
              /\ RevisionOf(last.replicaSets[j].revision, <<"0">>) < r}}

\* C20 as stated: a successful rollbackDeployment without a revision goes
\* to the previous revision: toRevision is the highest revision of the
\* replica sets of the deployment that lies strictly below fromRevision, so
\* toRevision < fromRevision.
C20_RollbackToPrevious_Stated ==
  (last.op = "rollbackDeployment" /\ last.ok /\ IsUndef(last.revision))
    => /\ last.toRevision < last.fromRevision
       /\ last.toRevision \in LowerRevisions(last.fromRevision)
       /\ \A r \in LowerRevisions(last.fromRevision) : r <= last.toRevision

\* The categories the configuration marks enabled: false.
CategoriesOff(cfg) ==
  {cfg.categories[i].category : i \in {j \in 1..Len(cfg.categories) :
                                        ~cfg.categories[j].enabled}}

\* C21: right after construction from a configuration, every rule of the
\* catalog whose category the configuration marks enabled: false is
\* disabled, a custom rule declared enabled and a built-in rule an override
\* enables included, and every built-in and every custom rule is still in
\* the catalog.
C21_CategoryGatingLast ==
  Constructed =>
    /\ \A i \in 1..Len(rules[last.engine]) :
         rules[last.engine][i].category \in CategoriesOff(config[last.engine])
           => ~rules[last.engine][i].enabled
    /\ RuleIds(defaultPolicies) \cup CustomIds(config[last.engine])
         \subseteq RuleIds(rules[last.engine])

\* An engine built from the configuration that disables cost, enables the
\* built-in cost rule res-002 by an override and declares the enabled custom
\* cost rule dev-001: both are in the catalog, disabled, and the override's
\* severity is on res-002.
C21_CostRulesGated ==
  /\ Constructed
  /\ config[last.engine] = ConfigNoCost
  /\ CustomDev.enabled
  /\ \E i \in 1..Len(rules[last.engine]) :
       rules[last.engine][i] = [CustomDev EXCEPT !.enabled = FALSE]
  /\ \E i \in 1..Len(rules[last.engine]) :
       /\ rules[last.engine][i].id = "res-002"
       /\ rules[last.engine][i].category = "cost"
       /\ rules[last.engine][i].severity = "high"
       /\ ~rules[last.engine][i].enabled

\* The last call evaluated one condition whose field has a projection.
Projected ==
  /\ last.op = "evaluateCondition"
  /\ \E i \in 1..Len(last.condition.field) : last.condition.field[i] = "[*]"

\* Whether some container of the resource has a value that is neither
\* undefined nor null at the path `suffix` (the container itself when the
\* suffix is empty).
SomeContainerDefines(resource, suffix) ==
  \E i \in 1..Len(Containers(resource)) :
    ~IsNullish(IF suffix = <<>> THEN Containers(resource)[i]
               ELSE getNestedValue(Containers(resource)[i], suffix))

OrZero(r) == IF r.nan THEN RatInt(0) ELSE r

\* The quantity C25 states for a value: a number unchanged; the leading
\* integer before a trailing m; the number before a trailing Ki, Mi or Gi
\* times 1024, 1024^2 or 1024^3; any other string as a decimal number; and 0
\* for what does not parse.
StatedQuantity(value) ==
  IF value.t = "number" THEN RatInt(value.n)
  ELSE IF value.t # "string" THEN RatInt(0)
  ELSE IF EndsWith(value.s, <<"m">>) THEN OrZero(ParseInt(SliceOff(value.s, 1)))
  ELSE IF EndsWith(value.s, <<"K", "i">>)
    THEN RatMul(OrZero(ParseFloat(SliceOff(value.s, 2))), Kibi)
  ELSE IF EndsWith(value.s, <<"M", "i">>)
    THEN RatMul(OrZero(ParseFloat(SliceOff(value.s, 2))), Kibi * Kibi)
  ELSE IF EndsWith(value.s, <<"G", "i">>)
    THEN RatMul(OrZero(ParseFloat(SliceOff(value.s, 2))), Kibi * Kibi * Kibi)
  ELSE OrZero(ParseFloat(value.s))

\* C25 as stated: greater_than and less_than compare the stated quantity
\* of the resolved value with the stated quantity of the condition value,
\* so both fail when the two are equal.
C25_QuantityComparison_Stated ==
  last.op = "evaluateCondition" =>
    /\ last.condition.operator = "greater_than" =>
         (last.passed <=> RatLt(StatedQuantity(last.condition.value),
                                StatedQuantity(last.currentValue)))
    /\ last.condition.operator = "less_than" =>
         (last.passed <=> RatLt(StatedQuantity(last.currentValue),
                                StatedQuantity(last.condition.value)))

\* The sum of the counts of a tally.
RECURSIVE TallyTotal(_)
TallyTotal(tally) ==
  IF DOMAIN tally = {} THEN 0
  ELSE LET k == CHOOSE x \in DOMAIN tally : TRUE
       IN tally[k] + TallyTotal([x \in DOMAIN tally \ {k} |-> tally[x]])

\* C23: in the result of evaluating a deployment, totalRules is the number
\* of enabled rules of scope deployment, failedRules the number of distinct
\* rule ids among the records of both buckets, passedRules their
\* difference, 0 <= failedRules <= totalRules, and the severity tallies and
\* the category tallies each sum to the number of records.
C23_SummaryCounters ==
  Evaluated =>
    /\ last.result.summary.totalRules =
         Cardinality({i \in 1..Len(rules[last.engine]) :
                        rules[last.engine][i].enabled
                        /\ rules[last.engine][i].scope = "deployment"})
    /\ last.result.summary.failedRules =
         Cardinality({AllRecords(last.result)[i].ruleId : i \in 1..Len(AllRecords(last.result))})
    /\ last.result.summary.passedRules =
         last.result.summary.totalRules - last.result.summary.failedRules
    /\ last.result.summary.failedRules \in 0..last.result.summary.totalRules
    /\ TallyTotal(last.result.summary.violationsBySeverity) = Len(AllRecords(last.result))
    /\ TallyTotal(last.result.summary.violationsByCategory) = Len(AllRecords(last.result))

\* An evaluation in which a rule failed several conditions: more records
\* than failed rules, in both buckets, and some rule passed.
C23_MoreRecordsThanRules ==
  /\ Evaluated
  /\ Len(AllRecords(last.result)) > last.result.summary.failedRules
  /\ last.result.violations # <<>>
  /\ last.result.warnings # <<>>
  /\ last.result.summary.passedRules > 0

\* C24: every record of an evaluation, in violations and in warnings and
\* whichever condition it reports, has canAutoFix = TRUE exactly when the
\* rule it comes from has at least one action with autoFix = true.
C24_CanAutoFixPerRule ==
  Evaluated =>
    \A i \in 1..Len(AllRecords(last.result)) :
      /\ MapHas(rules[last.engine], AllRecords(last.result)[i].ruleId)
      /\ AllRecords(last.result)[i].canAutoFix <=>
           \E k \in 1..Len(MapGet(rules[last.engine], AllRecords(last.result)[i].ruleId).actions) :
             MapGet(rules[last.engine], AllRecords(last.result)[i].ruleId).actions[k].autoFix

\* Two conditions of acme-001 failed, a rule with one action that fixes and
\* one that does not: both records can be fixed; a record of another rule
\* cannot, and a warning can.
C24_TwoRecordsOneRule ==
  /\ Evaluated
  /\ Len(RecordsOf(last.result.violations, "acme-001")) = 2
  /\ \A i \in 1..2 : RecordsOf(last.result.violations, "acme-001")[i].canAutoFix
  /\ RecordsOf(last.result.violations, "acme-001")[1].field
       # RecordsOf(last.result.violations, "acme-001")[2].field
  /\ \E i \in 1..Len(AllRecords(last.result)) : ~AllRecords(last.result)[i].canAutoFix
  /\ \E i \in 1..Len(last.result.warnings) : last.result.warnings[i].canAutoFix

\* autoFixViolations returned or raised after the deployment it had read
\* was replaced by another client, and its fixes had changed the document.
StaleWrite == last.op = "autoFixViolations" /\ last.stale /\ last.modified

\* The document of the Remediator: the one it read, with its fixes.
RemediatorDocument ==
  autoFixViolations(rules[last.engine], last.read, last.violations).doc

\* C26 as stated: when another writer replaced the deployment between the
\* read and the write-back, the write-back succeeds, no error is reported
\* and the deployment is the Remediator's document.
C26_LastWriterWins_Stated ==
  StaleWrite => last.ok /\ cluster[last.name] = RemediatorDocument

\* C26, amended: autoFixViolations takes no lock and compares nothing
\* before it writes, so another writer can replace the deployment between
\* the read and the write-back; the write-back then sends the document
\* that was read, with the fixes.  When the cluster accepts it, the
\* deployment is the Remediator's document and the other writer's change is
\* lost with no error; when the cluster refuses it, the call raises and the
\* deployment stays as the other writer left it.
C26_LastWriterWinsIfAccepted ==
  StaleWrite =>
    IF last.ok THEN cluster[last.name] = RemediatorDocument
    ELSE cluster[last.name] = last.current

\* A write-back that was accepted after another writer had replaced the
\* deployment: the deployment is the document read with the fixes, and not
\* the other writer's document with them.
C26_UpdateLost ==
  /\ StaleWrite
  /\ last.ok
  /\ last.current # last.read
  /\ cluster[last.name] = RemediatorDocument
  /\ cluster[last.name] #
       autoFixViolations(rules[last.engine], last.current, last.violations).doc

\* The two lists hold the same records, each as many times.
SameMultiset(a, b) ==
  /\ Len(a) = Len(b)
  /\ \A i \in 1..Len(a) :
       Cardinality({j \in 1..Len(a) : a[j] = a[i]}) =
         Cardinality({j \in 1..Len(b) : b[j] = a[i]})

\* The report of engine e over the deployments of the scope taken in the
\* order perm.
ReportInOrder(e, scope, perm) ==
  complianceReport(rules[e], [k \in 1..Len(Listed(scope)) |-> cluster[Listed(scope)[perm[k]]]])

\* The two reports agree in all but the order of the records of a bucket.
SameUpToOrder(r1, r2) ==
  /\ r1.results.summary = r2.results.summary
  /\ r1.overallCompliance = r2.overallCompliance
  /\ {r1.recommendations[i] : i \in 1..Len(r1.recommendations)} =
       {r2.recommendations[i] : i \in 1..Len(r2.recommendations)}
  /\ SameMultiset(r1.results.violations, r2.results.violations)
  /\ SameMultiset(r1.results.warnings, r2.results.warnings)

\* C27: the report over the deployments of a scope taken in any other order
\* has the same summary counters, the same overallCompliance, the same
\* recommendations and the same records in violations and in warnings as
\* the report that was returned.
C27_OrderIndependent ==
  Reported =>
    \A perm \in Permutations(1..Len(Listed(last.scope))) :
      SameUpToOrder(last.report, ReportInOrder(last.engine, last.scope, perm))

\* A report over two deployments that both have violations: the other
\* order gives another list of violations and another list of warnings.
C27_OrderChangesBucket ==
  /\ Reported
  /\ Len(Listed(last.scope)) = 2
  /\ ReportInOrder(last.engine, last.scope, <<2, 1>>).results.violations
       # last.report.results.violations
  /\ ReportInOrder(last.engine, last.scope, <<2, 1>>).results.warnings
       # last.report.results.warnings
  /\ \A name \in Names :
       evaluateResource(rules[last.engine], cluster[name], "deployment").violations # <<>>

\* A call of scaleDeployment is in its loop, or has returned.
Polling == last.op = "scaleDeployment" /\ last.pc = "poll"

Scaled == last.op = "scaleDeployment" /\ last.pc = "returned"

Carried(n) ==
  \E i \in 1..Len(last.replicaSets) :
    /\ last.replicaSets[i].owner = last.name
    /\ RevisionOf(last.replicaSets[i].revision, <<"0">>) = n

\* C29: a rollback of a deployment that was read, to a revision no replica
\* set owned by the deployment carries, raises 'Revision N not found' for
\* that revision and leaves the deployment as it was; the error is raised
\* for no revision that is carried, and a rollback that succeeded went to a
\* revision that is.
C29_MissingRevisionFails ==
  (last.op = "rollbackDeployment" /\ last.name \in Names) =>
    /\ (Truthy(last.revision) /\ ~Carried(last.revision.n)) =>
         (~last.ok /\ last.notFound = last.revision.n)
    /\ ~last.ok => (~Carried(last.notFound) /\ cluster[last.name] = last.before)
    /\ last.ok => Carried(last.toRevision)

\* Revision 2 was asked for while the deployment owns a replica set of
\* revision 1 and another deployment owns the second one listed: the call
\* raised and the deployment is as it was.
C29_RevisionNotFound ==
  /\ last.op = "rollbackDeployment"
  /\ last.name \in Names
  /\ last.revision = Num(2)
  /\ Len(last.replicaSets) = 2
  /\ Carried(1)
  /\ \E i \in 1..2 : last.replicaSets[i].owner # last.name
  /\ ~last.ok
  /\ last.notFound = 2
  /\ cluster[last.name] = last.before

\* The last call toggled an env_var flag of a deployment that was read.
ToggledEnvVar ==
  /\ last.op = "toggleFeatureFlag"
  /\ last.flagType = "env_var"
  /\ last.name \in Names

\* The positions of a list of env entries that carry the name.
Named(env, flagName) ==
  {i \in 1..Len(env) : GetProp(env[i], "name") = Str(flagName)}

\* C30: an env_var toggle that succeeded leaves an entry named flagName
\* with the value "true" or "false" of enabled in the first container's env;
\* an entry of that name that was there keeps its position and the list its
\* length, otherwise the entry is added at the end; every other entry, the
\* rest of the first container and the other containers are as they were;
\* the same call on the result gives the result.  On a deployment without
\* containers the call fails, no replace is issued and the deployment is as
\* it was.
C30_ToggleEnvVar ==
  ToggledEnvVar =>
    LET before == ContainersOf(last.before)
        after == ContainersOf(cluster[last.name])
        value == Str(IF last.enabled THEN <<"t", "r", "u", "e">>
                     ELSE <<"f", "a", "l", "s", "e">>)
    IN /\ before = <<>> =>
            (~last.ok /\ ~last.replaced /\ cluster[last.name] = last.before)
       /\ last.ok =>
            /\ before # <<>>
            /\ Len(after) = Len(before)
            /\ \A i \in 2..Len(before) : after[i] = before[i]
            /\ DelProp(after[1], "env") = DelProp(before[1], "env")
            /\ \E i \in Named(EnvOf(after[1]), last.flagName) :
                 GetProp(EnvOf(after[1])[i], "value") = value
            /\ IF Named(EnvOf(before[1]), last.flagName) # {}
               THEN /\ Len(EnvOf(after[1])) = Len(EnvOf(before[1]))
                    /\ Named(EnvOf(after[1]), last.flagName)
                         = Named(EnvOf(before[1]), last.flagName)
                    /\ \E i \in Named(EnvOf(before[1]), last.flagName) :
                         /\ EnvOf(after[1])[i] = SetProp(EnvOf(before[1])[i], "value", value)
                         /\ \A j \in 1..Len(EnvOf(before[1])) :
                              j # i => EnvOf(after[1])[j] = EnvOf(before[1])[j]
               ELSE /\ Len(EnvOf(after[1])) = Len(EnvOf(before[1])) + 1
                    /\ SubSeq(EnvOf(after[1]), 1, Len(EnvOf(before[1]))) = EnvOf(before[1])
            /\ toggleFeatureFlag(cluster[last.name], last.flagName, last.enabled).body
                 = cluster[last.name]

\* Flag F was enabled on a deployment of two containers whose first one had
\* G and then F = "false": F is still the second of two entries and now
\* "true", and G and the second container are as they were.
C30_UpdatedInPlace ==
  /\ ToggledEnvVar
  /\ last.ok
  /\ last.flagName = <<"F">>
  /\ last.enabled
  /\ Len(ContainersOf(last.before)) = 2
  /\ Len(EnvOf(ContainersOf(last.before)[1])) = 2
  /\ GetProp(EnvOf(ContainersOf(last.before)[1])[1], "name") = Str(<<"G">>)
  /\ EnvOf(ContainersOf(last.before)[1])[2]
       = Obj([name |-> Str(<<"F">>), value |-> Str(<<"f", "a", "l", "s", "e">>)])
  /\ EnvOf(ContainersOf(cluster[last.name])[1])
       = <<EnvOf(ContainersOf(last.before)[1])[1],
           Obj([name |-> Str(<<"F">>), value |-> Str(<<"t", "r", "u", "e">>)])>>
  /\ ContainersOf(cluster[last.name])[2] = ContainersOf(last.before)[2]

\* A toggle on a deployment without containers failed.
C30_NoContainers ==
  /\ ToggledEnvVar
  /\ ContainersOf(last.before) = <<>>
  /\ ~last.ok

====
